---------------------------- MODULE Spec2Model ----------------------------
(***************************************************************************)
(* Model of the gf180mcu-random-stuff scripts.  Every script is a batch    *)
(* job; each has its own variables, its own initial condition and its own  *)
(* specification.  Text is a sequence of one-character strings, so that    *)
(* substring tests, splitting and the regular expressions of the source    *)
(* are computed character by character.                                    *)
(***************************************************************************)
EXTENDS Integers, Sequences, FiniteSets, TLC

VARIABLES
    cell_name,      \* categorize_cell: the argument
    category,       \* cell_categorization.categorize_cell: returned value ("" before the call)
    grid_category,  \* stdcell_grid.categorize_cell: returned value ("" before the call)
    store_pc,       \* generate_store.main: position in the run
    use_argv,       \* generate_store.main: len(sys.argv) == 3
    rows_text,      \* generate_store.main: sys.argv[1], or the answer to the first prompt
    cols_text,      \* generate_store.main: sys.argv[2], or the answer to the second prompt
    rows,           \* generate_store.main: local rows (0 while unbound)
    cols,           \* generate_store.main: local cols (0 while unbound)
    stdout,         \* generate_store: what was printed, one entry per print/prompt
    dirs,           \* file system: the directories that exist
    files,          \* file system: the files that exist, as [path, content] records
    via_pc,         \* create_dense_via_array: "call" before, "done" after the call
    size,           \* create_dense_via_array: argument size
    via_size,       \* create_dense_via_array: argument via_size
    via_spacing,    \* create_dense_via_array: argument via_spacing
    metal,          \* the component: its M5 and MT polygons
    via_refs,       \* the component: the placed via references, in placement order
    via_extra,      \* the metal widths, metal spacings and via_enclosure of the call
    via_unit,       \* how many units of the call's lengths make one micron
    lef_pc,         \* extract_cell_size: "call" before, "done" after the call
    lef_file,       \* extract_cell_size: the file behind the argument lef_file
    lef_result,     \* extract_cell_size: the returned pair
    lef_out,        \* extract_stdcell_sizes.py: what was printed
    sizes_pc,       \* extract_stdcell_sizes.main: "start", "libs", "files", "exit"
    pdk,            \* per library of STDCELL_LIBS: whether its cells directory
                    \* exists and its LEF files in the order the loops visit them
    lib_index,      \* position of the library loop in STDCELL_LIBS
    file_index,     \* position of the file loops in the library's files
    cell_data,      \* main's list cell_data
    unique_cells,   \* the keys of main's dictionary unique_cells
    csv_file,       \* gf180mcu_stdcell_sizes.csv
    group_pc,       \* group_cells_by_base_and_size: "call" before, "done" after
    cells,          \* its argument: the loaded cells, each with its name
    cell_groups,    \* the returned dictionary, as its items in insertion order
    group_out,      \* what it printed
    stdgrid_pc,     \* stdcell_grid.py as a script: "start", "find", "load",
                    \* "loaded", "done", and "exit1" after sys.exit(1)
    grid_pdk,       \* whether the PDK path exists, and the GDS files the glob finds
    gds_todo,       \* sorted(gds_files) still to visit
    std_cells,      \* create_stdcell_grid's list std_cells
    seen_cells,     \* its set seen_cells
    stdgrid_out,    \* what the script printed
    grid_gds,       \* gf180mcu_stdcell_grid.gds
    grid_c,         \* the component c of create_stdcell_grid: its labels and references
    via_counter,    \* metal_grid_with_vias.py: the global _via_counter
    via_names,      \* the names of the components create_via has returned, in order
    mg_args,        \* the arguments create_metal_grid is called with
    metal_grid      \* the component the last call of create_metal_grid returned

catVars == <<cell_name, category, grid_category>>

storeVars == <<store_pc, use_argv, rows_text, cols_text, rows, cols, stdout, dirs, files>>

viaVars == <<via_pc, size, via_size, via_spacing, metal, via_refs, via_extra, via_unit>>

lefVars == <<lef_pc, lef_file, lef_result, lef_out>>

sizesVars == <<sizes_pc, pdk, lib_index, file_index, cell_data, unique_cells, csv_file>>

groupVars == <<group_pc, cells, cell_groups, group_out>>

stdgridVars == <<stdgrid_pc, grid_pdk, gds_todo, std_cells, seen_cells, stdgrid_out, grid_gds, grid_c>>

metalVars == <<via_counter, via_names, mg_args, metal_grid>>

vars == <<catVars, storeVars, viaVars, lefVars, sizesVars, groupVars, stdgridVars, metalVars>>

\* the variables of the other scripts
notCatVars == <<storeVars, viaVars, lefVars, sizesVars, groupVars, stdgridVars, metalVars>>

notStoreVars == <<catVars, viaVars, lefVars, sizesVars, groupVars, stdgridVars, metalVars>>

notViaVars == <<catVars, storeVars, lefVars, sizesVars, groupVars, stdgridVars, metalVars>>

notLefVars == <<catVars, storeVars, viaVars, sizesVars, groupVars, stdgridVars, metalVars>>

notSizesVars == <<catVars, storeVars, viaVars, lef_pc, lef_file, lef_result, groupVars, stdgridVars, metalVars>>

notGroupVars == <<catVars, storeVars, viaVars, lefVars, sizesVars, stdgridVars, metalVars>>

notStdgridVars == <<catVars, storeVars, viaVars, lefVars, sizesVars, groupVars, metalVars>>

notMetalVars == <<catVars, storeVars, viaVars, lefVars, sizesVars, groupVars, stdgridVars>>

(***************************************************************************)
(* Generic helpers on character sequences                                  *)
(***************************************************************************)
SetMin(S) == CHOOSE x \in S : \A y \in S : x <= y

SetMax(S) == CHOOSE x \in S : \A y \in S : x >= y

\* Python `pat in s` for a non-empty pattern
Contains(s, pat) ==
    \E i \in 1..(Len(s) - Len(pat) + 1) : SubSeq(s, i, i + Len(pat) - 1) = pat

RECURSIVE Concat(_)
\* "".join(parts)
Concat(parts) ==
    IF parts = <<>> THEN <<>> ELSE Head(parts) \o Concat(Tail(parts))

UpperAlpha ==
    <<"A","B","C","D","E","F","G","H","I","J","K","L","M",
      "N","O","P","Q","R","S","T","U","V","W","X","Y","Z">>

LowerAlpha ==
    <<"a","b","c","d","e","f","g","h","i","j","k","l","m",
      "n","o","p","q","r","s","t","u","v","w","x","y","z">>

LowerChar(c) ==
    IF \E i \in 1..Len(UpperAlpha) : UpperAlpha[i] = c
    THEN LowerAlpha[CHOOSE i \in 1..Len(UpperAlpha) : UpperAlpha[i] = c]
    ELSE c

\* str.lower() on ASCII text
ToLower(s) == [i \in 1..Len(s) |-> LowerChar(s[i])]

Digits == {"0","1","2","3","4","5","6","7","8","9"}

(***************************************************************************)
(* The size-suffix token of the regular expressions                        *)
(*     [1-9]|1[0-9]|2[0-9]|3[0-2]|64                                       *)
(***************************************************************************)
IsSizeToken(t) ==
    \/ Len(t) = 1 /\ t[1] \in (Digits \ {"0"})
    \/ Len(t) = 2 /\ t[1] = "1" /\ t[2] \in Digits
    \/ Len(t) = 2 /\ t[1] = "2" /\ t[2] \in Digits
    \/ Len(t) = 2 /\ t[1] = "3" /\ t[2] \in {"0","1","2"}
    \/ Len(t) = 2 /\ t[1] = "6" /\ t[2] = "4"

\* start positions of the matches of  _(?:<size token>)$  in s
SizeSuffixStarts(s) ==
    {i \in 1..Len(s) : s[i] = "_" /\ IsSizeToken(SubSeq(s, i + 1, Len(s)))}

\* re.sub(r'_(?:[1-9]|1[0-9]|2[0-9]|3[0-2]|64)$', '', s)
StripSizeSuffix(s) ==
    IF SizeSuffixStarts(s) = {} THEN s
    ELSE SubSeq(s, 1, SetMin(SizeSuffixStarts(s)) - 1)

RECURSIVE SplitLastFrom(_, _, _)
\* s.split("__")[-1], scanning left to right from position i; the piece
\* being collected starts at position start
SplitLastFrom(s, i, start) ==
    IF i > Len(s) THEN SubSeq(s, start, Len(s))
    ELSE IF i + 1 <= Len(s) /\ s[i] = "_" /\ s[i + 1] = "_"
         THEN SplitLastFrom(s, i + 2, i + 2)
         ELSE SplitLastFrom(s, i + 1, start)

SplitLast(s) == SplitLastFrom(s, 1, 1)

(***************************************************************************)
(* The keywords of the rule tables                                         *)
(***************************************************************************)
\* the keywords, each as its characters
kw ==
    [clk |-> <<"c","l","k">>,
     icgt |-> <<"i","c","g","t">>,
     aoi |-> <<"a","o","i">>,
     oai |-> <<"o","a","i">>,
     add |-> <<"a","d","d">>,
     addf |-> <<"a","d","d","f">>,
     addh |-> <<"a","d","d","h">>,
     inv |-> <<"i","n","v">>,
     buf |-> <<"b","u","f">>,
     bufz |-> <<"b","u","f","z">>,
     clkbuf |-> <<"c","l","k","b","u","f">>,
     clkinv |-> <<"c","l","k","i","n","v">>,
     and |-> <<"a","n","d">>,
     or |-> <<"o","r">>,
     nand |-> <<"n","a","n","d">>,
     nor |-> <<"n","o","r">>,
     xor |-> <<"x","o","r">>,
     xnor |-> <<"x","n","o","r">>,
     dff |-> <<"d","f","f">>,
     sdff |-> <<"s","d","f","f">>,
     lat |-> <<"l","a","t">>,
     mux |-> <<"m","u","x">>,
     dly |-> <<"d","l","y">>,
     fill |-> <<"f","i","l","l">>,
     tie |-> <<"t","i","e">>,
     endcap |-> <<"e","n","d","c","a","p">>,
     antenna |-> <<"a","n","t","e","n","n","a">>,
     hold |-> <<"h","o","l","d">>]

\* cell_categorization.categorize_cell: the ordered table
categories ==
    << [category |-> "clock",       patterns |-> <<kw.clk, kw.icgt>>],
       [category |-> "aoi_oai",     patterns |-> <<kw.aoi, kw.oai>>],
       [category |-> "arithmetic",  patterns |-> <<kw.add, kw.addf, kw.addh>>],
       [category |-> "buffers",     patterns |-> <<kw.inv, kw.buf, kw.bufz, kw.clkbuf, kw.clkinv>>],
       [category |-> "logic_gates", patterns |-> <<kw.and, kw.or, kw.nand, kw.nor, kw.xor, kw.xnor>>],
       [category |-> "flip_flops",  patterns |-> <<kw.dff, kw.sdff>>],
       [category |-> "latches",     patterns |-> <<kw.lat>>],
       [category |-> "mux",         patterns |-> <<kw.mux>>],
       [category |-> "delay",       patterns |-> <<kw.dly>>],
       [category |-> "special",     patterns |-> <<kw.fill, kw.tie, kw.endcap, kw.antenna, kw.hold>>] >>

\* stdcell_grid.categorize_cell: the ordered table of that copy
grid_categories ==
    << [category |-> "clock",       patterns |-> <<kw.clk, kw.icgt>>],
       [category |-> "aoi_oai",     patterns |-> <<kw.aoi, kw.oai>>],
       [category |-> "arithmetic",  patterns |-> <<kw.add, kw.addf, kw.addh>>],
       [category |-> "buffers",     patterns |-> <<kw.inv, kw.buf>>],
       [category |-> "logic_gates", patterns |-> <<kw.and, kw.or, kw.nand, kw.nor, kw.xor, kw.xnor>>],
       [category |-> "flip_flops",  patterns |-> <<kw.dff, kw.sdff>>],
       [category |-> "latches",     patterns |-> <<kw.lat>>],
       [category |-> "mux",         patterns |-> <<kw.mux>>],
       [category |-> "delay",       patterns |-> <<kw.dly>>],
       [category |-> "special",     patterns |-> <<kw.fill, kw.tie, kw.endcap, kw.antenna>>] >>

\* any(pattern in name_lower for pattern in patterns)
AnyPatternIn(patterns, name_lower) ==
    \E p \in 1..Len(patterns) : Contains(name_lower, patterns[p])

RECURSIVE FindCategoryFrom_LastWins(_, _, _)
\* mutant: the last matching entry of the table wins instead of the first
FindCategoryFrom_LastWins(table, name_lower, k) ==
    IF k > Len(table) THEN "other"
    ELSE LET later == FindCategoryFrom_LastWins(table, name_lower, k + 1)
         IN  IF later # "other" THEN later
             ELSE IF AnyPatternIn(table[k].patterns, name_lower)
                  THEN table[k].category
                  ELSE "other"

RECURSIVE FindCategoryFrom(_, _, _)
\* the loop "for category, patterns in categories", entered at entry k
FindCategoryFrom(table, name_lower, k) ==
    IF k > Len(table) THEN "other"
    ELSE IF AnyPatternIn(table[k].patterns, name_lower) THEN table[k].category
         ELSE FindCategoryFrom(table, name_lower, k + 1)

FindCategory(table, name_lower) == FindCategoryFrom(table, name_lower, 1)

\* mutant: the library prefix is kept
StripLibraryPrefix_Keep(name) == name

\* the "if '__' in cell_name: cell_name = cell_name.split('__')[-1]" step
StripLibraryPrefix(name) ==
    IF Contains(name, <<"_","_">>) THEN SplitLast(name) ELSE name

\* cell_categorization.categorize_cell
categorize_cell(name) ==
    IF name = <<>> THEN "other"
    ELSE FindCategory(categories, ToLower(StripSizeSuffix(StripLibraryPrefix(name))))

\* stdcell_grid.categorize_cell
grid_categorize_cell(name) ==
    IF name = <<>> THEN "other"
    ELSE FindCategory(grid_categories, ToLower(StripSizeSuffix(name)))

(***************************************************************************)
(* Inputs of the categorizer: cell names                                   *)
(***************************************************************************)
MaxFrags == 4

\* fragments cell names are assembled from
NameFrags ==
    { kw.clk, kw.buf, kw.hold, <<"O","R">>, <<"x">>, <<"_">>, <<"_","_">>,
      <<"1">>, <<"6">> }

RECURSIVE FragSeqs(_)
\* the sequences of at most n fragments
FragSeqs(n) ==
    IF n = 0 THEN {<<>>}
    ELSE LET shorter == FragSeqs(n - 1)
         IN  shorter \cup {Append(q, f) : q \in shorter, f \in NameFrags}

FreeNames == {Concat(q) : q \in FragSeqs(MaxFrags)}

AllKeywords ==
    { kw.clk, kw.icgt, kw.aoi, kw.oai, kw.add, kw.addf, kw.addh, kw.inv, kw.buf,
      kw.bufz, kw.clkbuf, kw.clkinv, kw.and, kw.or, kw.nand, kw.nor, kw.xor,
      kw.xnor, kw.dff, kw.sdff, kw.lat, kw.mux, kw.dly, kw.fill, kw.tie,
      kw.endcap, kw.antenna, kw.hold }

LibPrefixes ==
    { <<>>, <<"x","_">>, <<"s","c","_","_">>, <<"s","c","_","_","_">>,
      <<"c","l","k","_","_">>, <<"l","i","b","_","_","q","_">> }

SizeSuffixes ==
    { <<>>, <<"_","1">>, <<"_","1","6">>, <<"_","3","2">>, <<"_","3","3">>,
      <<"_","6","4">>, <<"_","0">>, <<"2">>, <<"_","2","_","x">> }

KeywordNames ==
    {p \o k \o s : p \in LibPrefixes, k \in AllKeywords \cup {<<"q">>}, s \in SizeSuffixes}

CellNames == FreeNames \cup KeywordNames

CatInit ==
    /\ cell_name \in CellNames
    /\ category = ""
    /\ grid_category = ""

\* a call of cell_categorization.categorize_cell(cell_name)
CategorizeCell ==
    /\ category = ""
    /\ category' = categorize_cell(cell_name)
    /\ UNCHANGED <<cell_name, grid_category>>
    /\ UNCHANGED notCatVars

\* a call of stdcell_grid.categorize_cell(cell_name)
GridCategorizeCell ==
    /\ grid_category = ""
    /\ grid_category' = grid_categorize_cell(cell_name)
    /\ UNCHANGED <<cell_name, category>>
    /\ UNCHANGED notCatVars

(***************************************************************************)
(* Claims about the categorizer.  The normalisation and the category order *)
(* are written here as the claims state them, independently of the code.   *)
(***************************************************************************)
DoubleUnderscoreAt(s) ==
    {i \in 1..(Len(s) - 1) : s[i] = "_" /\ s[i + 1] = "_"}

\* the text after the last occurrence of "__" (the whole text when there is none)
AfterLastDoubleUnderscore(s) ==
    IF DoubleUnderscoreAt(s) = {} THEN s
    ELSE SubSeq(s, SetMax(DoubleUnderscoreAt(s)) + 2, Len(s))

\* normalized base name: library prefix and size suffix stripped, lower-cased
NormalizedBase(s) == ToLower(StripSizeSuffix(AfterLastDoubleUnderscore(s)))

\* the table entries with a keyword inside base
MatchingEntries(table, base) ==
    {k \in 1..Len(table) : AnyPatternIn(table[k].patterns, base)}

\* name = <prefix>_<keyword>_<size>
HasKeywordForm(s) ==
    \E i \in 1..Len(s) : \E j \in (i + 1)..Len(s) :
        /\ s[i] = "_"
        /\ s[j] = "_"
        /\ ToLower(SubSeq(s, i + 1, j - 1)) \in AllKeywords
        /\ IsSizeToken(SubSeq(s, j + 1, Len(s)))

CategoryOrder ==
    <<"clock", "aoi_oai", "arithmetic", "buffers", "logic_gates",
      "flip_flops", "latches", "mux", "delay", "special">>

Rank(c) == CHOOSE r \in 1..Len(CategoryOrder) : CategoryOrder[r] = c

ClaimC1For(result, table, name) ==
    LET M == MatchingEntries(table, NormalizedBase(name))
    IN  /\ (HasKeywordForm(name) /\ Cardinality(M) = 1)
              => result = table[CHOOSE k \in M : TRUE].category
        /\ (M = {}) => result = "other"

\* C1: every copy of categorize_cell returns the one category whose keywords
\* the normalized base name (library prefix and size suffix stripped,
\* lower-cased) contains, for names <prefix>_<keyword>_<size>, and "other"
\* when the normalized base name contains no keyword of the table.
C1_EveryCopyCategorizes ==
    /\ category # "" => ClaimC1For(category, categories, cell_name)
    /\ grid_category # "" => ClaimC1For(grid_category, grid_categories, cell_name)

\* C1, the case that fails: stdcell_grid.categorize_cell was called on a name
\* whose library prefix holds a keyword the normalized base name lacks
C1_GridPrefixCase ==
    /\ grid_category = "clock"
    /\ HasKeywordForm(cell_name)
    /\ MatchingEntries(grid_categories, NormalizedBase(cell_name)) = {4}

\* C1 read for cell_categorization.categorize_cell alone (this copy satisfies it)
C1_CellCategorizationOnly ==
    category # "" => ClaimC1For(category, categories, cell_name)

\* C2: when the normalized name contains keywords of several categories, the
\* result of cell_categorization.categorize_cell is the matching category that
\* comes first in the order clock, aoi_oai, arithmetic, buffers, logic_gates,
\* flip_flops, latches, mux, delay, special; with 'clk' and 'buf' it is clock.
C2_FirstInTableOrderWins ==
    category # "" =>
        LET base == NormalizedBase(cell_name)
            M == MatchingEntries(categories, base)
        IN  /\ Cardinality(M) >= 2 =>
                /\ \E k \in M : category = categories[k].category
                /\ \A k \in M : Rank(category) <= Rank(categories[k].category)
            /\ (Contains(base, kw.clk) /\ Contains(base, kw.buf)) => category = "clock"

C2_Witness ==
    /\ category = "clock"
    /\ Contains(NormalizedBase(cell_name), kw.clk)
    /\ Contains(NormalizedBase(cell_name), kw.buf)
    /\ Cardinality(MatchingEntries(categories, NormalizedBase(cell_name))) >= 2

\* the category of a name that carries no library prefix
CategoryOfUnprefixed(t) ==
    IF t = <<>> THEN "other" ELSE FindCategory(categories, ToLower(StripSizeSuffix(t)))

\* C3: for every name containing "__", the category returned by
\* cell_categorization.categorize_cell is decided by the text after the last
\* "__" alone: keywords of the prefix never decide it.
C3_OnlyTextAfterLastDoubleUnderscore ==
    (category # "" /\ Contains(cell_name, <<"_","_">>)) =>
        category = CategoryOfUnprefixed(AfterLastDoubleUnderscore(cell_name))

C3_Witness ==
    /\ category = "buffers"
    /\ Contains(cell_name, <<"_","_">>)
    /\ Contains(AfterLastDoubleUnderscore(cell_name), kw.buf)
    /\ Contains(cell_name, kw.clk)

\* C4: cell_categorization.categorize_cell and stdcell_grid.categorize_cell
\* return the same category for every cell name.
C4_BothCopiesAgree ==
    (category # "" /\ grid_category # "") => category = grid_category

\* C4, a case that fails: a 'hold' cell is special for one copy, other for the other
C4_HoldCase ==
    /\ Contains(ToLower(cell_name), kw.hold)
    /\ category = "special"
    /\ grid_category = "other"

(***************************************************************************)
(* generate_store.py                                                       *)
(*                                                                         *)
(* The generated text is a sequence of lines; a line is the sequence of    *)
(* the pieces its f-strings are made of (literal parts and formatted       *)
(* values), so that concatenating the pieces gives the line's exact text.  *)
(***************************************************************************)
MaxDim == 3

DigitChars == <<"0","1","2","3","4","5","6","7","8","9">>

RECURSIVE Numeral(_)
\* the decimal text of a natural number, as characters
Numeral(n) ==
    IF n < 10 THEN <<DigitChars[n + 1]>>
    ELSE Numeral(n \div 10) \o <<DigitChars[(n % 10) + 1]>>

DigitValue(c) == (CHOOSE d \in 1..10 : DigitChars[d] = c) - 1

RECURSIVE DigitsValue(_)
DigitsValue(ds) ==
    IF ds = <<>> THEN 0
    ELSE 10 * DigitsValue(SubSeq(ds, 1, Len(ds) - 1)) + DigitValue(ds[Len(ds)])

RECURSIVE StripSpaces(_)
\* str.strip() for blanks, which int() applies to its argument
StripSpaces(t) ==
    IF t # <<>> /\ Head(t) = " " THEN StripSpaces(Tail(t))
    ELSE IF t # <<>> /\ t[Len(t)] = " " THEN StripSpaces(SubSeq(t, 1, Len(t) - 1))
         ELSE t

\* the digits of an int() argument, after the blanks and the sign
IntBody(t) ==
    LET u == StripSpaces(t)
    IN  IF u # <<>> /\ Head(u) \in {"+", "-"} THEN Tail(u) ELSE u

\* int(t) does not raise ValueError
IsIntText(t) ==
    IntBody(t) # <<>> /\ \A i \in 1..Len(IntBody(t)) : IntBody(t)[i] \in Digits

\* int(t), for a text int() accepts
IntValue(t) ==
    LET u == StripSpaces(t)
    IN  IF u # <<>> /\ Head(u) = "-" THEN 0 - DigitsValue(IntBody(t))
        ELSE DigitsValue(IntBody(t))

\* what the user passes or types for rows and cols
ArgTexts ==
    {Numeral(n) : n \in 0..MaxDim} \cup
    { <<"-","1">>, <<"+","2">>, <<" ","1"," ">>, <<"0","2">>, <<"a">>,
      <<"1",".","5">>, <<>>, <<"-">>, <<"2","x">> }

RECURSIVE ColHeaders(_, _)
\* for c in range(cols): verilog_code += f"col{c}     ", from c on
ColHeaders(c, ncols) ==
    IF c >= ncols THEN <<>>
    ELSE <<"col", ToString(c), "     ">> \o ColHeaders(c + 1, ncols)

RECURSIVE Cells(_, _)
\* for c in range(cols): verilog_code += cell
Cells(cell, ncols) ==
    IF ncols <= 0 THEN <<>> ELSE <<cell>> \o Cells(cell, ncols - 1)

RECURSIVE DiagramRows(_, _, _)
\* the two lines of every row of the ASCII diagram, from row r on
DiagramRows(r, nrows, ncols) ==
    IF r >= nrows THEN <<>>
    ELSE << <<"// row", ToString(r), " |">> \o Cells(" latq_1 |", ncols),
            <<"//      +">> \o Cells("--------+", ncols) >>
         \o DiagramRows(r + 1, nrows, ncols)

\* str.replace("--", "==") on one piece of a diagram line
ReplaceDashes(piece) ==
    IF piece = "--------+" THEN "========+" ELSE piece

\* lines[-2] = lines[-2].replace("--", "=="): the last line of the text so far
ReplaceInLastLine(lines) ==
    [lines EXCEPT ![Len(lines)] =
        [i \in 1..Len(lines[Len(lines)]) |-> ReplaceDashes(lines[Len(lines)][i])]]

RECURSIVE InputDats(_, _)
\* for r in range(rows): the declaration of input dat<r>, from r on
InputDats(r, nrows) ==
    IF r >= nrows THEN <<>>
    ELSE << <<"    input  wire ", "dat", ToString(r),
              ",     // Data input for row ", ToString(r)>> >>
         \o InputDats(r + 1, nrows)

RECURSIVE InputCaps(_, _)
\* for c in range(cols): the declaration of input cap<c>, from c on
InputCaps(c, ncols) ==
    IF c >= ncols THEN <<>>
    ELSE << <<"    input  wire ", "cap", ToString(c),
              ",     // Capture data for column ", ToString(c)>> >>
         \o InputCaps(c + 1, ncols)

\* the lines of the latch of row r, column c, connected to out[index]
Latch(r, c, index) ==
    << <<"    gf180mcu_fd_sc_mcu7t5v0__latq_1 dff_r", ToString(r), "c", ToString(c), " (">>,
       <<"        .D(", "dat", ToString(r), "),">>,
       <<"        .E(", "cap", ToString(c), "),">>,
       <<"        .Q(out[", ToString(index), "])">>,
       <<"    );">>,
       <<>> >>

RECURSIVE Latches_StopOneRowEarly(_, _, _, _, _)
\* mutant: the outer loop runs over range(rows - 1)
Latches_StopOneRowEarly(r, c, index, nrows, ncols) ==
    IF r >= nrows - 1 THEN <<>>
    ELSE IF c >= ncols THEN Latches_StopOneRowEarly(r + 1, 0, index, nrows, ncols)
         ELSE Latch(r, c, index) \o Latches_StopOneRowEarly(r, c + 1, index + 1, nrows, ncols)

RECURSIVE Latches_IndexRestartsPerRow(_, _, _, _, _)
\* mutant: the counter index starts again at 0 with every row
Latches_IndexRestartsPerRow(r, c, index, nrows, ncols) ==
    IF r >= nrows THEN <<>>
    ELSE IF c >= ncols THEN Latches_IndexRestartsPerRow(r + 1, 0, 0, nrows, ncols)
         ELSE Latch(r, c, index) \o Latches_IndexRestartsPerRow(r, c + 1, index + 1, nrows, ncols)

RECURSIVE Latches(_, _, _, _, _)
\* the nested loops over r and c that emit the latches, entered at (r, c)
\* with the running counter index; "index += 1" after every latch
Latches(r, c, index, nrows, ncols) ==
    IF r >= nrows THEN <<>>
    ELSE IF c >= ncols THEN Latches(r + 1, 0, index, nrows, ncols)
         ELSE Latch(r, c, index) \o Latches(r, c + 1, index + 1, nrows, ncols)

module_name(nrows, ncols) == "store_" \o ToString(nrows) \o "x" \o ToString(ncols)

file_path(nrows, ncols) == "modules/store/" \o module_name(nrows, ncols) \o ".v"

\* generate_store_module: the text written to the file, line by line
verilog_code(nrows, ncols) ==
    LET total_elements == nrows * ncols
        header ==
            << <<"// Description: ", ToString(total_elements), " bits of storage.">>,
               <<"//">>,
               <<"// Contains ", ToString(total_elements), " latches in a row/column configuration.">>,
               <<"//">>,
               <<"//         ">> \o ColHeaders(0, ncols),
               <<"//      +">> \o Cells("========+", ncols) >>
        diagram == ReplaceInLastLine(header \o DiagramRows(0, nrows, ncols))
        declaration ==
            << <<"//">>,
               <<"module ", module_name(nrows, ncols), " (">> >>
            \o InputDats(0, nrows)
            \o InputCaps(0, ncols)
            \o << <<"    output wire [0:", ToString(total_elements - 1), "] out  // Stored data output">>,
                  <<");">>,
                  <<>> >>
    IN  diagram \o declaration \o Latches(0, 0, 0, nrows, ncols) \o << <<"endmodule">> >>

\* open(path, 'w') and write
WriteFile(fs, path, content) ==
    {f \in fs : f.path # path} \cup {[path |-> path, content |-> content]}

RECURSIVE JoinPorts(_, _, _)
\* ', '.join([f'.{port}{i}(prog_{port}{i})' for i in range(n)]), from i on
JoinPorts(port, i, n) ==
    IF i >= n THEN ""
    ELSE "." \o port \o ToString(i) \o "(prog_" \o port \o ToString(i) \o ")"
         \o (IF i + 1 < n THEN ", " ELSE "") \o JoinPorts(port, i + 1, n)

\* the instantiation example printed by main: the f-string of lines 135-148,
\* with its comment lines, its indentation and the blank first and last lines
UsageText(nrows, ncols) ==
    "\n    // Instantiation example:"
    \o "\n    " \o module_name(nrows, ncols) \o " storage ("
    \o "\n        // Data inputs"
    \o "\n        " \o JoinPorts("dat", 0, nrows) \o ","
    \o "\n        // Capture signals"
    \o "\n        " \o JoinPorts("cap", 0, ncols) \o ","
    \o "\n        // Output"
    \o "\n        .out(q)"
    \o "\n    );"
    \o "\n    "
    \o "\n    // Where q is declared as:"
    \o "\n    wire [0:" \o ToString(nrows * ncols - 1) \o "] q;"
    \o "\n    "

StoreInit ==
    /\ store_pc = "read_args"
    /\ use_argv \in BOOLEAN
    /\ rows_text \in ArgTexts
    /\ cols_text \in ArgTexts
    /\ rows = 0
    /\ cols = 0
    /\ stdout = <<>>
    /\ dirs = {}
    /\ files = {}

\* the prompts input() has printed when both answers were asked for
Prompts(n) ==
    IF use_argv THEN <<>>
    ELSE SubSeq(<<"Enter number of rows: ", "Enter number of columns: ">>, 1, n)

\* main: rows = int(...); cols = int(...), from sys.argv or from the prompts
MainReadArgs ==
    /\ store_pc = "read_args"
    /\ \/ /\ IsIntText(rows_text) /\ IsIntText(cols_text)
          /\ rows' = IntValue(rows_text)
          /\ cols' = IntValue(cols_text)
          /\ stdout' = stdout \o Prompts(2)
          /\ store_pc' = "validate"
       \/ /\ ~IsIntText(rows_text)
          /\ stdout' = stdout \o Prompts(1) \o <<"Error: Rows and columns must be integers.">>
          /\ store_pc' = "done"
          /\ UNCHANGED <<rows, cols>>
       \/ /\ IsIntText(rows_text) /\ ~IsIntText(cols_text)
          /\ rows' = IntValue(rows_text)
          /\ stdout' = stdout \o Prompts(2) \o <<"Error: Rows and columns must be integers.">>
          /\ store_pc' = "done"
          /\ UNCHANGED cols
    /\ UNCHANGED <<use_argv, rows_text, cols_text, dirs, files>>
    /\ UNCHANGED notStoreVars

\* mutant: the run is refused only when both dimensions are non-positive
InvalidDimensions_Both(nrows, ncols) == nrows <= 0 /\ ncols <= 0

\* main: the test "rows <= 0 or cols <= 0"
InvalidDimensions(nrows, ncols) == nrows <= 0 \/ ncols <= 0

\* main: validate input
MainValidate ==
    /\ store_pc = "validate"
    /\ \/ /\ InvalidDimensions(rows, cols)
          /\ stdout' = Append(stdout, "Error: Rows and columns must be positive integers.")
          /\ store_pc' = "done"
       \/ /\ ~InvalidDimensions(rows, cols)
          /\ store_pc' = "generate"
          /\ UNCHANGED stdout
    /\ UNCHANGED <<use_argv, rows_text, cols_text, rows, cols, dirs, files>>
    /\ UNCHANGED notStoreVars

\* generate_store_module(rows, cols): make the directory, build the text, write the file
GenerateStoreModule ==
    /\ store_pc = "generate"
    /\ dirs' = dirs \cup {"modules", "modules/store"}
    /\ files' = WriteFile(files, file_path(rows, cols), verilog_code(rows, cols))
    /\ stdout' = Append(stdout, "Generated " \o file_path(rows, cols) \o " successfully.")
    /\ store_pc' = "usage"
    /\ UNCHANGED <<use_argv, rows_text, cols_text, rows, cols>>
    /\ UNCHANGED notStoreVars

\* main: print the usage example of the generated module
MainPrintUsage ==
    /\ store_pc = "usage"
    /\ stdout' = stdout \o
           << "\nUsage example for " \o module_name(rows, cols) \o ".v:",
              UsageText(rows, cols) >>
    /\ store_pc' = "done"
    /\ UNCHANGED <<use_argv, rows_text, cols_text, rows, cols, dirs, files>>
    /\ UNCHANGED notStoreVars

(***************************************************************************)
(* Claims about generate_store.py                                          *)
(***************************************************************************)
\* the lines of a text that instantiate a latch
LatchLines(content) ==
    {i \in 1..Len(content) :
        content[i] # <<>> /\ content[i][1] = "    gf180mcu_fd_sc_mcu7t5v0__latq_1 dff_r"}

\* the lines of a text that declare an input
InputLines(content) ==
    {i \in 1..Len(content) : content[i] # <<>> /\ content[i][1] = "    input  wire "}

\* the names of the declared inputs
InputNames(content) ==
    {content[i][2] \o content[i][3] : i \in InputLines(content)}

\* C5: for rows >= 1 and cols >= 1 the generated module text contains exactly
\* rows*cols latch instantiations and exactly rows+cols declared inputs,
\* dat0..dat<rows-1> and cap0..cap<cols-1>.
C5_LatchAndInputCounts ==
    \A f \in files :
        (rows >= 1 /\ cols >= 1) =>
            /\ Cardinality(LatchLines(f.content)) = rows * cols
            /\ Cardinality(InputLines(f.content)) = rows + cols
            /\ InputNames(f.content) =
                   {"dat" \o ToString(r) : r \in 0..(rows - 1)} \cup
                   {"cap" \o ToString(c) : c \in 0..(cols - 1)}

C5_Witness ==
    /\ store_pc = "done"
    /\ rows = 2
    /\ cols = 3
    /\ \E f \in files : f.path = "modules/store/store_2x3.v" /\ Cardinality(LatchLines(f.content)) = 6

\* the rows or cols input is not an integer or is not positive
InvalidInput ==
    \/ ~IsIntText(rows_text)
    \/ ~IsIntText(cols_text)
    \/ IntValue(rows_text) <= 0
    \/ IntValue(cols_text) <= 0

ErrorMessages ==
    { "Error: Rows and columns must be integers.",
      "Error: Rows and columns must be positive integers." }

\* C6: whenever the rows or cols input is not an integer or is not positive,
\* the run of generate_store.main creates no directory and writes no file at
\* any point, and it ends having printed an error.
C6_InvalidInputWritesNothing ==
    (store_pc # "idle" /\ InvalidInput) =>
        /\ dirs = {}
        /\ files = {}
        /\ store_pc \notin {"generate", "usage"}
        /\ store_pc = "done" => (stdout # <<>> /\ stdout[Len(stdout)] \in ErrorMessages)

C6_Witness ==
    /\ store_pc = "done"
    /\ rows >= 1
    /\ cols_text = <<"-","1">>
    /\ stdout[Len(stdout)] = "Error: Rows and columns must be positive integers."
    /\ files = {}

\* the latch instantiated at line i of a text: its row and column as written
\* in the instance name and the texts connected to D, E and Q
LatchAt(content, i) ==
    [r |-> content[i][2], c |-> content[i][4],
     D |-> content[i + 1][2] \o content[i + 1][3],
     E |-> content[i + 2][2] \o content[i + 2][3],
     Q |-> content[i + 3][2]]

\* the lines of a text that declare the output
OutputLines(content) ==
    {i \in 1..Len(content) : content[i] # <<>> /\ content[i][1] = "    output wire [0:"}

\* C20: in the generated module the latch of row r and column c has its D
\* on dat<r>, its E on cap<c> and its Q on out[r*cols + c]; the indices of
\* the latches are pairwise distinct and are exactly 0..rows*cols-1, the
\* declared range of out.
C20_LatchWiring ==
    \A f \in files :
        LET latches == {LatchAt(f.content, i) : i \in LatchLines(f.content)}
        IN  /\ \A r \in 0..(rows - 1), c \in 0..(cols - 1) :
                  \E l \in latches :
                      /\ l.r = ToString(r) /\ l.c = ToString(c)
                      /\ l.D = "dat" \o ToString(r)
                      /\ l.E = "cap" \o ToString(c)
                      /\ l.Q = ToString(r * cols + c)
            /\ Cardinality(LatchLines(f.content)) = rows * cols
            /\ {l.Q : l \in latches} = {ToString(k) : k \in 0..(rows * cols - 1)}
            /\ \A i \in OutputLines(f.content) : f.content[i][2] = ToString(rows * cols - 1)
            /\ Cardinality(OutputLines(f.content)) = 1

\* the module of 3 rows and 2 columns: the last latch of the second row is on out[3]
C20_Witness ==
    /\ rows = 3
    /\ cols = 2
    /\ \E f \in files :
          \E i \in LatchLines(f.content) :
              LatchAt(f.content, i) = [r |-> "1", c |-> "1", D |-> "dat1", E |-> "cap1", Q |-> "3"]

\* the state of the variables of generate_store.py while another script runs
StoreIdle ==
    /\ store_pc = "idle"
    /\ use_argv = FALSE
    /\ rows_text = <<>>
    /\ cols_text = <<>>
    /\ rows = 0
    /\ cols = 0
    /\ stdout = <<>>
    /\ dirs = {}
    /\ files = {}

(***************************************************************************)
(* dense_via_array.py: create_dense_via_array                              *)
(*                                                                         *)
(* The functions compute with floats.  A call is held as whole numbers     *)
(* together with via_unit, the number of those units in one micron: the    *)
(* float passed for size is size / via_unit.                               *)
(*  - The arguments drawn from the bounded sets are whole microns          *)
(*    (via_unit = 1): floats hold them, their sums and products, their     *)
(*    halves and the outcome of every comparison and of int(a / b)         *)
(*    exactly, so the whole-number arithmetic below is the arithmetic of   *)
(*    the code.  Arguments with a fractional part are not drawn: their     *)
(*    sums are rounded (0.03 + 2*0.01 + 0.01 is 0.060000000000000005), and *)
(*    a count or a comparison that is on the boundary in exact arithmetic  *)
(*    can then fall on the other side.                                     *)
(*  - The call of main passes size=100.0 and the design-rule constants,    *)
(*    which are hundredths of a micron (via_unit = MAIN_UNIT).  None of    *)
(*    its quotients or comparisons is on a boundary, so the counts are     *)
(*    those of the code; the coordinates are the exact values, of which    *)
(*    the floats of the code are the roundings.                            *)
(* The code halves lengths (via_pitch/2, via_size/2), so every coordinate  *)
(* is kept doubled: a rectangle [x0, y0, x1, y1] holds 2*x0, 2*y0, 2*x1,   *)
(* 2*y1.                                                                   *)
(***************************************************************************)
\* the design-rule constants hold two decimals: the units per micron of main's call
MAIN_UNIT == 100

\* VIA5_SIZE = 0.26, in hundredths of a micron
VIA5_SIZE == 26

\* VIA5_SPACING = 0.28, in hundredths of a micron
VIA5_SPACING == 28

\* size=100.0 of main, in hundredths of a micron
MAIN_SIZE == 10000

MaxSize == 12

MinSize == 3

MaxViaSize == 3

MaxViaSpacing == 3

\* mutant: int() rounds the quotient up
TruncDiv_RoundUp(a, b) ==
    IF a >= 0 THEN (a + b - 1) \div b ELSE 0 - ((0 - a) \div b)

\* int(a / b) for b > 0: the quotient truncated towards zero
TruncDiv(a, b) ==
    IF a >= 0 THEN a \div b ELSE 0 - ((0 - a) \div b)

\* mutant: the pitch leaves no room between the vias
ViaPitch_SizeOnly(vsize, vspacing) == vsize

\* via_pitch = via_size + via_spacing
ViaPitch(vsize, vspacing) == vsize + vspacing

\* num_vias_per_row = int(size / via_pitch)
NumViasPerRow(sz, vsize, vspacing) == TruncDiv(sz, ViaPitch(vsize, vspacing))

\* the square polygon (0,0) (size,0) (size,size) (0,size), doubled
FullSquare(sz) == [x0 |-> 0, y0 |-> 0, x1 |-> 2 * sz, y1 |-> 2 * sz]

\* the via square after via_ref.move((x - via_size/2, y - via_size/2)) with
\* x = i*via_pitch + via_pitch/2 and y = j*via_pitch + via_pitch/2, doubled
DenseViaAt(i, j, vsize, vspacing) ==
    LET pitch == ViaPitch(vsize, vspacing)
        x2 == 2 * i * pitch + pitch
        y2 == 2 * j * pitch + pitch
    IN  [x0 |-> x2 - vsize, y0 |-> y2 - vsize,
         x1 |-> x2 - vsize + 2 * vsize, y1 |-> y2 - vsize + 2 * vsize]

\* the nested loops "for i in range(n): for j in range(n)": the k-th reference
\* placed is the via of i = (k-1) div n, j = (k-1) mod n
DenseViaRefs(sz, vsize, vspacing) ==
    LET n == NumViasPerRow(sz, vsize, vspacing)
    IN  IF n <= 0 THEN <<>>
        ELSE [k \in 1..(n * n) |->
                 DenseViaAt((k - 1) \div n, (k - 1) % n, vsize, vspacing)]

\* the arguments only the other two functions of the file take, when they are not given
NoExtra == [m5_width |-> 0, m5_spacing |-> 0, mt_width |-> 0, mt_spacing |-> 0, via_enclosure |-> 0]

\* the arguments create_dense_via_array is called with
ViaInit ==
    /\ via_pc = "call"
    /\ \/ /\ size \in (0 - MinSize)..MaxSize
          /\ via_size \in 1..MaxViaSize
          /\ via_spacing \in 1..MaxViaSpacing
          /\ via_unit = 1
       \/ /\ size = MAIN_SIZE
          /\ via_size = VIA5_SIZE
          /\ via_spacing = VIA5_SPACING
          /\ via_unit = MAIN_UNIT
    /\ via_extra = NoExtra
    /\ metal = <<>>
    /\ via_refs = <<>>

\* create_dense_via_array(size, via_size, via_spacing)
CreateDenseViaArray ==
    /\ via_pc = "call"
    /\ metal' = <<[layer |-> "M5", box |-> FullSquare(size)],
                  [layer |-> "MT", box |-> FullSquare(size)]>>
    /\ via_refs' = DenseViaRefs(size, via_size, via_spacing)
    /\ via_pc' = "done"
    /\ UNCHANGED <<size, via_size, via_spacing, via_extra, via_unit>>
    /\ UNCHANGED notViaVars

(***************************************************************************)
(* dense_via_array.py: create_dense_via_array_with_stripes                 *)
(***************************************************************************)
MT_WIDTH == 44

MT_SPACING == 46

M5_WIDTH == 44

M5_SPACING == 46

VIA5_ENCLOSURE == 9

MaxStripeWidth == 3

MaxMetalSpacing == 2

MaxEnclosure == 1

\* mutant: the stripes keep the width they were given
EffectiveWidth_AsGiven(vsize, enclosure, width) == width

\* effective_m5_width and effective_mt_width: max(min_metal_width, width)
\* with min_metal_width = via_size + 2 * via_enclosure
EffectiveWidth(vsize, enclosure, width) ==
    IF vsize + 2 * enclosure >= width THEN vsize + 2 * enclosure ELSE width

\* m5_pitch and mt_pitch
StripePitch(vsize, enclosure, width, spacing) == EffectiveWidth(vsize, enclosure, width) + spacing

\* num_m5_stripes and num_mt_stripes
NumStripes(sz, vsize, enclosure, width, spacing) ==
    TruncDiv(sz, StripePitch(vsize, enclosure, width, spacing))

\* twice the centre line of stripe i: i * pitch + effective_width/2
StripeCentre2(i, vsize, enclosure, width, spacing) ==
    2 * i * StripePitch(vsize, enclosure, width, spacing) + EffectiveWidth(vsize, enclosure, width)

\* the horizontal Metal 5 stripe i, doubled
M5Stripe(i, sz, vsize, e) ==
    LET y2 == StripeCentre2(i, vsize, e.via_enclosure, e.m5_width, e.m5_spacing)
        w == EffectiveWidth(vsize, e.via_enclosure, e.m5_width)
    IN  [x0 |-> 0, x1 |-> 2 * sz, y0 |-> y2 - w, y1 |-> y2 + w]

\* the vertical MT stripe i, doubled
MTStripe(i, sz, vsize, e) ==
    LET x2 == StripeCentre2(i, vsize, e.via_enclosure, e.mt_width, e.mt_spacing)
        w == EffectiveWidth(vsize, e.via_enclosure, e.mt_width)
    IN  [x0 |-> x2 - w, x1 |-> x2 + w, y0 |-> 0, y1 |-> 2 * sz]

\* the via on MT stripe i and Metal 5 stripe j after
\* via_ref.move((x_pos - via_size/2, y_pos - via_size/2)), doubled
StripeViaAt(i, j, vsize, e) ==
    LET x2 == StripeCentre2(i, vsize, e.via_enclosure, e.mt_width, e.mt_spacing)
        y2 == StripeCentre2(j, vsize, e.via_enclosure, e.m5_width, e.m5_spacing)
    IN  [x0 |-> x2 - vsize, y0 |-> y2 - vsize,
         x1 |-> x2 - vsize + 2 * vsize, y1 |-> y2 - vsize + 2 * vsize]

\* the polygons of the two stripe loops, Metal 5 first
StripeMetal(sz, vsize, e) ==
    LET n5 == NumStripes(sz, vsize, e.via_enclosure, e.m5_width, e.m5_spacing)
        nt == NumStripes(sz, vsize, e.via_enclosure, e.mt_width, e.mt_spacing)
    IN  (IF n5 <= 0 THEN <<>>
         ELSE [k \in 1..n5 |-> [layer |-> "M5", box |-> M5Stripe(k - 1, sz, vsize, e)]])
        \o
        (IF nt <= 0 THEN <<>>
         ELSE [k \in 1..nt |-> [layer |-> "MT", box |-> MTStripe(k - 1, sz, vsize, e)]])

\* "for i in range(num_mt_stripes): for j in range(num_m5_stripes)"
StripeViaRefs(sz, vsize, e) ==
    LET n5 == NumStripes(sz, vsize, e.via_enclosure, e.m5_width, e.m5_spacing)
        nt == NumStripes(sz, vsize, e.via_enclosure, e.mt_width, e.mt_spacing)
    IN  IF n5 <= 0 \/ nt <= 0 THEN <<>>
        ELSE [k \in 1..(nt * n5) |-> StripeViaAt((k - 1) \div n5, (k - 1) % n5, vsize, e)]

\* the arguments create_dense_via_array_with_stripes is called with
StripesInit ==
    /\ via_pc = "call_stripes"
    /\ \/ /\ size \in (0 - MinSize)..MaxSize
          /\ via_size \in 1..MaxViaSize
          /\ via_spacing \in 1..MaxViaSpacing
          /\ via_extra \in [m5_width : 1..MaxStripeWidth, m5_spacing : 1..MaxMetalSpacing,
                            mt_width : 1..MaxStripeWidth, mt_spacing : 1..MaxMetalSpacing,
                            via_enclosure : 0..MaxEnclosure]
          /\ via_unit = 1
       \/ /\ size = MAIN_SIZE
          /\ via_size = VIA5_SIZE
          /\ via_spacing = VIA5_SPACING
          /\ via_unit = MAIN_UNIT
          /\ via_extra = [m5_width |-> M5_WIDTH, m5_spacing |-> M5_SPACING,
                          mt_width |-> MT_WIDTH, mt_spacing |-> MT_SPACING,
                          via_enclosure |-> VIA5_ENCLOSURE]
    /\ metal = <<>>
    /\ via_refs = <<>>

\* create_dense_via_array_with_stripes(size, via_size, via_spacing, m5_width,
\* m5_spacing, mt_width, mt_spacing, via_enclosure)
CreateDenseViaArrayWithStripes ==
    /\ via_pc = "call_stripes"
    /\ metal' = StripeMetal(size, via_size, via_extra)
    /\ via_refs' = StripeViaRefs(size, via_size, via_extra)
    /\ via_pc' = "done_stripes"
    /\ UNCHANGED <<size, via_size, via_spacing, via_extra, via_unit>>
    /\ UNCHANGED notViaVars

(***************************************************************************)
(* dense_via_array.py: create_optimized_via_array                          *)
(***************************************************************************)
\* the solid rectangle from (-via_enclosure, -via_enclosure) to
\* (size + via_enclosure, size + via_enclosure), doubled
SolidMetal(sz, enclosure) ==
    [x0 |-> 0 - 2 * enclosure, y0 |-> 0 - 2 * enclosure,
     x1 |-> 2 * (sz + enclosure), y1 |-> 2 * (sz + enclosure)]

\* twice row_offset: via_pitch / 2 in the odd rows, 0.0 in the even ones
RowOffset2(i, pitch) == IF i % 2 = 1 THEN pitch ELSE 0

\* the via square after via_ref.move((x, y)), x2 and y2 being 2*x and 2*y
OptViaAt(x2, y2, vsize) == [x0 |-> x2, y0 |-> y2, x1 |-> x2 + 2 * vsize, y1 |-> y2 + 2 * vsize]

\* the number of j in range(num_vias + 1) with x < size in row i, where
\* x = j * via_pitch + row_offset: the vias of the row, x growing with j
RowLength(i, n, sz, pitch) ==
    Cardinality({j \in 0..n : 2 * j * pitch + RowOffset2(i, pitch) < 2 * sz})

\* the number of i in range(num_vias + 1) with y < size, where y = i * via_pitch
NumRows(n, sz, pitch) == Cardinality({i \in 0..n : i * pitch < sz})

\* the references placed by the two loops, in order: rows 0, 1, 2, ... one
\* after the other, an even row of RowLength(0) vias and an odd row of
\* RowLength(1); the k-th reference is via j of row i
OptViaRefs(sz, vsize, vspacing) ==
    LET pitch == ViaPitch(vsize, vspacing)
        n == NumViasPerRow(sz, vsize, vspacing)
        even == RowLength(0, n, sz, pitch)
        odd == RowLength(1, n, sz, pitch)
        nrows == NumRows(n, sz, pitch)
        total == ((nrows + 1) \div 2) * even + (nrows \div 2) * odd
    IN  IF total = 0 THEN <<>>
        ELSE [k \in 1..total |->
                 LET q == (k - 1) \div (even + odd)
                     rest == (k - 1) % (even + odd)
                     i == IF rest < even THEN 2 * q ELSE 2 * q + 1
                     j == IF rest < even THEN rest ELSE rest - even
                 IN  OptViaAt(2 * j * pitch + RowOffset2(i, pitch), 2 * i * pitch, vsize)]

\* the arguments create_optimized_via_array is called with
OptInit ==
    /\ via_pc = "call_optimized"
    /\ \/ /\ size \in (0 - MinSize)..MaxSize
          /\ via_size \in 1..MaxViaSize
          /\ via_spacing \in 1..MaxViaSpacing
          /\ via_extra \in {[NoExtra EXCEPT !.via_enclosure = en] : en \in 0..MaxEnclosure}
          /\ via_unit = 1
       \/ /\ size = MAIN_SIZE
          /\ via_size = VIA5_SIZE
          /\ via_spacing = VIA5_SPACING
          /\ via_unit = MAIN_UNIT
          /\ via_extra = [NoExtra EXCEPT !.via_enclosure = VIA5_ENCLOSURE]
    /\ metal = <<>>
    /\ via_refs = <<>>

\* create_optimized_via_array(size, via_size, via_spacing, via_enclosure)
CreateOptimizedViaArray ==
    /\ via_pc = "call_optimized"
    /\ metal' = <<[layer |-> "M5", box |-> SolidMetal(size, via_extra.via_enclosure)],
                  [layer |-> "MT", box |-> SolidMetal(size, via_extra.via_enclosure)]>>
    /\ via_refs' = OptViaRefs(size, via_size, via_spacing)
    /\ via_pc' = "done_optimized"
    /\ UNCHANGED <<size, via_size, via_spacing, via_extra, via_unit>>
    /\ UNCHANGED notViaVars

\* the state of the variables of dense_via_array.py while another script runs
ViaIdle ==
    /\ via_pc = "idle"
    /\ size = 0
    /\ via_size = 0
    /\ via_spacing = 0
    /\ via_extra = NoExtra
    /\ via_unit = 1
    /\ metal = <<>>
    /\ via_refs = <<>>

(***************************************************************************)
(* Claims about create_dense_via_array                                     *)
(***************************************************************************)
\* floor(a / b) for b > 0
Floor(a, b) == a \div b

\* the via square lies entirely within [0, size] x [0, size]
InsideArray(v) ==
    /\ 0 <= v.x0 /\ v.x0 <= v.x1 /\ v.x1 <= 2 * size
    /\ 0 <= v.y0 /\ v.y0 <= v.y1 /\ v.y1 <= 2 * size

\* C7 as stated: for every size and positive via_size and via_spacing the
\* call places floor(size/(via_size+via_spacing))^2 vias, each within
\* [0,size] x [0,size]; 185*185 = 34225 for size=100, 0.26, 0.28.
C7_AsClaimed ==
    via_pc = "done" =>
        /\ Len(via_refs) = Floor(size, via_size + via_spacing) * Floor(size, via_size + via_spacing)
        /\ \A k \in 1..Len(via_refs) : InsideArray(via_refs[k])
        /\ (size = MAIN_SIZE /\ via_size = VIA5_SIZE /\ via_spacing = VIA5_SPACING)
              => Len(via_refs) = 34225

\* C7: for every size >= 0 and positive via_size and via_spacing the
\* call places floor(size/(via_size+via_spacing))^2 vias (185*185 = 34225 for
\* size=100, 0.26, 0.28) and for a negative size it places none; every placed
\* via square lies entirely within [0,size] x [0,size].
C7_ViaCountAndBounds ==
    via_pc = "done" =>
        /\ size >= 0 =>
              Len(via_refs) = Floor(size, via_size + via_spacing) * Floor(size, via_size + via_spacing)
        /\ size < 0 => Len(via_refs) = 0
        /\ \A k \in 1..Len(via_refs) : InsideArray(via_refs[k])
        /\ (size = MAIN_SIZE /\ via_size = VIA5_SIZE /\ via_spacing = VIA5_SPACING)
              => Len(via_refs) = 34225

C7_Witness ==
    /\ via_pc = "done"
    /\ size = MAIN_SIZE
    /\ via_size = VIA5_SIZE
    /\ via_spacing = VIA5_SPACING
    /\ Len(via_refs) = 185 * 185

(***************************************************************************)
(* Claims about the striped and the optimized via arrays                   *)
(***************************************************************************)
\* the polygons of the component on a layer, by their place in metal
PolygonsOn(layer) == {k \in 1..Len(metal) : metal[k].layer = layer}

\* rectangle v lies inside rectangle r and keeps the distance margin2 / 2
\* from each of its four edges (coordinates are doubled)
EnclosedBy(v, r, margin2) ==
    /\ r.x0 + margin2 <= v.x0 /\ v.x1 + margin2 <= r.x1
    /\ r.y0 + margin2 <= v.y0 /\ v.y1 + margin2 <= r.y1

\* the polygons of a layer that enclose via k by via_enclosure
EnclosingOn(layer, k) ==
    {p \in PolygonsOn(layer) :
        EnclosedBy(via_refs[k], metal[p].box, 2 * via_extra.via_enclosure)}

\* C15: create_dense_via_array_with_stripes places vias only on the
\* intersections of its stripes: as many vias as the number of Metal 5
\* stripes times the number of MT stripes, one on every intersection, each
\* inside one horizontal Metal 5 stripe and one vertical MT stripe and at
\* least via_enclosure away from the edges of both.
C15_ViasOnStripeIntersections ==
    via_pc = "done_stripes" =>
        /\ Len(via_refs) = Cardinality(PolygonsOn("M5")) * Cardinality(PolygonsOn("MT"))
        /\ \A k \in 1..Len(via_refs) :
              /\ Cardinality(EnclosingOn("M5", k)) = 1
              /\ Cardinality(EnclosingOn("MT", k)) = 1
        /\ UNION {EnclosingOn("M5", k) \X EnclosingOn("MT", k) : k \in 1..Len(via_refs)}
               = PolygonsOn("M5") \X PolygonsOn("MT")

\* the call of main: 111 stripes each way, widened by nothing, and 12321 vias
C15_Witness ==
    /\ via_pc = "done_stripes"
    /\ size = MAIN_SIZE
    /\ Cardinality(PolygonsOn("M5")) = 111
    /\ Cardinality(PolygonsOn("MT")) = 111
    /\ Len(via_refs) = 12321

\* a call whose stripes were widened to via_size + 2 * via_enclosure
C15_WidenedCase ==
    /\ via_pc = "done_stripes"
    /\ via_extra.m5_width < via_size + 2 * via_extra.via_enclosure
    /\ Len(via_refs) >= 4

\* C16: the solid Metal 5 and MT rectangles of create_optimized_via_array
\* enclose every placed via: each via square lies inside both rectangles at
\* least via_enclosure away from each of their four sides, for the default
\* arguments and for every size, via_size and via_spacing.
C16_SolidMetalEnclosesVias ==
    via_pc = "done_optimized" =>
        \A k \in 1..Len(via_refs) :
            /\ EnclosingOn("M5", k) = PolygonsOn("M5")
            /\ EnclosingOn("MT", k) = PolygonsOn("MT")

\* the call with the defaults: the last via of the first row starts at 99.90,
\* left of size = 100, and ends at 100.16, beyond the metal that ends at 100.09
C16_LastViaLeavesMetal ==
    /\ via_pc = "done_optimized"
    /\ size = MAIN_SIZE /\ via_size = VIA5_SIZE /\ via_spacing = VIA5_SPACING
    /\ via_extra.via_enclosure = VIA5_ENCLOSURE
    /\ Len(via_refs) = 34503
    /\ via_refs[186].x0 = 2 * 9990
    /\ via_refs[186].x1 = 2 * 10016
    /\ metal[1].box.x1 = 2 * 10009

\* twice the gap between two intervals, 0 when they meet or overlap
Gap2(lo1, hi1, lo2, hi2) ==
    IF lo2 > hi1 THEN lo2 - hi1 ELSE IF lo1 > hi2 THEN lo1 - hi2 ELSE 0

\* two via squares have no inner point in common and their edges are at
\* least spacing apart (coordinates are doubled)
ViasApart(a, b, spacing) ==
    LET dx == Gap2(a.x0, a.x1, b.x0, b.x1)
        dy == Gap2(a.y0, a.y1, b.y0, b.y1)
    IN  /\ ~(a.x0 < b.x1 /\ b.x0 < a.x1 /\ a.y0 < b.y1 /\ b.y0 < a.y1)
        /\ dx * dx + dy * dy >= (2 * spacing) * (2 * spacing)

\* C17: in the component of create_dense_via_array and in the staggered
\* component of create_optimized_via_array any two distinct vias do not
\* overlap and are at least via_spacing apart edge to edge, the vias of
\* neighbouring rows that are shifted by half a pitch included.
C17_ViaSpacingKept ==
    via_pc \in {"done", "done_optimized"} =>
        \A k, l \in 1..Len(via_refs) :
            k # l => ViasApart(via_refs[k], via_refs[l], via_spacing)

\* a staggered array with a via of an odd row half a pitch to the right of,
\* and exactly via_spacing above, a via of the row below it
C17_Witness ==
    /\ via_pc = "done_optimized"
    /\ \E k, l \in 1..Len(via_refs) :
          /\ via_refs[l].x0 = via_refs[k].x0 + ViaPitch(via_size, via_spacing)
          /\ via_refs[l].x0 < via_refs[k].x1
          /\ via_refs[l].y0 = via_refs[k].y1 + 2 * via_spacing

\* an array of create_dense_via_array with two rows at least
C17_SimpleGridCase ==
    /\ via_pc = "done"
    /\ Len(via_refs) >= 4

(***************************************************************************)
(* extract_stdcell_sizes.py: extract_cell_size                             *)
(*                                                                         *)
(* A float read from a decimal text is kept exactly, as [m, e] standing    *)
(* for m / 10^e with no trailing zero in m when e > 0, so that 12.500 and  *)
(* 12.5 are the same value.  None is the record with none = TRUE.          *)
(***************************************************************************)
\* the characters \s matches
WhiteSpace == {" ", "\t", "\n", "\r", "\f"}

RECURSIVE SkipWhile(_, _, _)
\* the first position from i on whose character is not in chars (Len(s)+1 at the end)
SkipWhile(s, i, chars) ==
    IF i <= Len(s) /\ s[i] \in chars THEN SkipWhile(s, i + 1, chars) ELSE i

\* the literal lit stands at position i of s
LiteralAt(s, i, lit) ==
    i + Len(lit) - 1 <= Len(s) /\ SubSeq(s, i, i + Len(lit) - 1) = lit

\* \d+\.\d+ at position i: the position after the match, 0 when there is none
DecimalEnd(s, i) ==
    LET a == SkipWhile(s, i, Digits)
    IN  IF a > i /\ a <= Len(s) /\ s[a] = "."
        THEN LET b == SkipWhile(s, a + 1, Digits)
             IN  IF b > a + 1 THEN b ELSE 0
        ELSE 0

\* SIZE\s+(\d+\.\d+)\s+BY\s+(\d+\.\d+)\s*; at position i: [ok, w, h] with the
\* two groups
SizeRecordAt(s, i) ==
    LET none == [ok |-> FALSE, w |-> <<>>, h |-> <<>>]
        w0 == SkipWhile(s, i + 4, WhiteSpace)
        w1 == DecimalEnd(s, w0)
        by == SkipWhile(s, w1, WhiteSpace)
        h0 == SkipWhile(s, by + 2, WhiteSpace)
        h1 == DecimalEnd(s, h0)
        semi == SkipWhile(s, h1, WhiteSpace)
    IN  IF ~LiteralAt(s, i, <<"S","I","Z","E">>) \/ w0 = i + 4 THEN none
        ELSE IF w1 = 0 \/ by = w1 \/ ~LiteralAt(s, by, <<"B","Y">>) THEN none
        ELSE IF h0 = by + 2 THEN none
        ELSE IF h1 = 0 \/ ~LiteralAt(s, semi, <<";">>) THEN none
        ELSE [ok |-> TRUE, w |-> SubSeq(s, w0, w1 - 1), h |-> SubSeq(s, h0, h1 - 1)]

\* SIZE_PATTERN.search(content): the leftmost match
SizePatternSearch(s) ==
    LET hits == {i \in 1..Len(s) : SizeRecordAt(s, i).ok}
    IN  IF hits = {} THEN [ok |-> FALSE, w |-> <<>>, h |-> <<>>]
        ELSE SizeRecordAt(s, SetMin(hits))

None == [none |-> TRUE, m |-> 0, e |-> 0]

RECURSIVE Normalize(_, _)
Normalize(m, e) ==
    IF e > 0 /\ m % 10 = 0 THEN Normalize(m \div 10, e - 1)
    ELSE [none |-> FALSE, m |-> m, e |-> e]

\* float(text) for a text <digits>.<digits> or <digits>
ToFloat(text) ==
    LET dot == SkipWhile(text, 1, Digits)
        frac == SubSeq(text, dot + 1, Len(text))
    IN  Normalize(DigitsValue(SubSeq(text, 1, dot - 1) \o frac), Len(frac))

\* width * height
FloatProduct(a, b) == Normalize(a.m * b.m, a.e + b.e)

\* extract_cell_size(lef_file): [value, printed]
extract_cell_size(file) ==
    IF ~file.readable
    THEN [value |-> <<None, None>>,
          printed |-> <<"Error reading " \o file.path \o ": " \o file.error>>]
    ELSE LET match == SizePatternSearch(file.content)
         IN  IF match.ok
             THEN [value |-> <<ToFloat(match.w), ToFloat(match.h)>>, printed |-> <<>>]
             ELSE [value |-> <<None, None>>,
                   printed |-> <<"Warning: Could not find size in " \o file.path>>]

\* parts the texts of LEF files and their names are assembled from
txt ==
    [size |-> <<"S","I","Z","E">>,
     by |-> <<"B","Y">>,
     macro |-> <<"M","A","C","R","O"," ","a","\n"," "," ">>,
     end |-> <<"\n","E","N","D">>,
     w12_500 |-> <<"1","2",".","5","0","0">>,
     h8_000 |-> <<"8",".","0","0","0">>,
     w1_5 |-> <<"1",".","5">>,
     w12 |-> <<"1","2">>,
     a_lef |-> <<"a", ".", "l", "e", "f">>,
     a_v2_lef |-> <<"a", ".", "v", "2", ".", "l", "e", "f">>,
     b_lef |-> <<"b", ".", "l", "e", "f">>]

MaxBlanks == 1

RECURSIVE Blanks(_)
Blanks(n) == IF n = 0 THEN <<>> ELSE <<" ">> \o Blanks(n - 1)

LefNumbers == {txt.w12_500, txt.h8_000, txt.w1_5, txt.w12, <<".","5">>}

\* the separators between the parts of a record
LefGaps == {Blanks(n) : n \in 0..MaxBlanks} \cup {<<"\n"," ">>}

\* SIZE <W> BY <H> ; with every choice of numbers and separators
LefRecords ==
    {txt.size \o g1 \o w \o g2 \o txt.by \o g3 \o h \o g4 \o <<";">> :
        g1 \in LefGaps, g2 \in {<<" ">>, <<>>}, g3 \in {<<" ">>, <<>>},
        g4 \in {<<" ">>, <<>>}, w \in LefNumbers, h \in LefNumbers}

LefTexts ==
    {pre \o r \o post :
        pre \in {<<>>, txt.macro, txt.size \o <<" ">> \o txt.w12 \o <<" ">>},
        r \in LefRecords,
        post \in {<<>>, txt.end,
                  <<"\n">> \o txt.size \o <<" ">> \o txt.w1_5 \o <<" ">> \o txt.by
                      \o <<" ">> \o txt.h8_000 \o <<";">>}}
    \cup {<<>>, txt.macro \o txt.end, txt.size \o <<" ">> \o txt.by \o <<" ", ";">>}

LefInit ==
    /\ lef_pc = "call"
    /\ lef_file \in [readable : BOOLEAN, path : {"a.lef"}, content : LefTexts,
                      error : {"[Errno 13] Permission denied: 'a.lef'"}]
    /\ lef_result = <<None, None>>
    /\ lef_out = <<>>

\* a call of extract_cell_size(lef_file)
ExtractCellSize ==
    /\ lef_pc = "call"
    /\ lef_result' = extract_cell_size(lef_file).value
    /\ lef_out' = lef_out \o extract_cell_size(lef_file).printed
    /\ lef_pc' = "done"
    /\ UNCHANGED lef_file
    /\ UNCHANGED notLefVars

(***************************************************************************)
(* Claims about extract_cell_size                                          *)
(***************************************************************************)
\* the numbers a SIZE record may carry: digits, with or without a fraction
RecordNumbers == {txt.w12_500, txt.h8_000, txt.w1_5, txt.w12}

\* the record SIZE w BY h ; is written at position i of text: its words are
\* separated by white space, the semicolon may follow directly
RecordAt(text, i, w, h) ==
    \E g1 \in LefGaps \ {<<>>}, g2 \in LefGaps \ {<<>>}, g3 \in LefGaps \ {<<>>}, g4 \in LefGaps :
        LiteralAt(text, i, txt.size \o g1 \o w \o g2 \o txt.by \o g3 \o h \o g4 \o <<";">>)

\* the pairs <<W, H>> of the records SIZE W BY H ; that text contains
RecordsIn(text) ==
    {p \in RecordNumbers \X RecordNumbers :
        \E i \in 1..Len(text) : text[i] = "S" /\ RecordAt(text, i, p[1], p[2])}

\* C8 as stated: for a readable file whose text contains a record SIZE W BY H ;
\* extract_cell_size returns (W, H) taken from a record of the text, and for a
\* text without such a record, or an unreadable file, it returns (None, None)
\* after printing a message.
C8_AsClaimed ==
    lef_pc = "done" =>
        IF lef_file.readable /\ RecordsIn(lef_file.content) # {}
        THEN \E p \in RecordsIn(lef_file.content) :
                lef_result = <<ToFloat(p[1]), ToFloat(p[2])>>
        ELSE lef_result = <<None, None>> /\ lef_out # <<>>

\* C8, the failing case: the file holds a record with whole-number sizes and
\* the call has returned (None, None) with the warning that no size was found
C8_IntegerRecordCase ==
    /\ lef_pc = "done"
    /\ lef_file.readable
    /\ lef_file.content = txt.size \o <<" ">> \o txt.w12 \o <<" ">> \o txt.by
                              \o <<" ">> \o txt.h8_000 \o <<" ", ";">>
    /\ lef_result = <<None, None>>
    /\ lef_out = <<"Warning: Could not find size in a.lef">>

\* the pairs of the records whose two numbers both have a fraction
DecimalRecordsIn(text) ==
    {p \in RecordsIn(text) : "." \in {p[1][k] : k \in 1..Len(p[1])}
                             /\ "." \in {p[2][k] : k \in 1..Len(p[2])}}

\* C8 for sizes written with a fraction: a readable text with such a record
\* gives the width and height of one of them (12.5 and 8.0, area 100.0, for
\* SIZE 12.500 BY 8.000 ;), an unreadable file gives (None, None) and a message
C8_DecimalRecords ==
    lef_pc = "done" =>
        /\ (lef_file.readable /\ DecimalRecordsIn(lef_file.content) # {}) =>
              \E p \in DecimalRecordsIn(lef_file.content) :
                  lef_result = <<ToFloat(p[1]), ToFloat(p[2])>>
        /\ (lef_file.readable
            /\ lef_file.content = txt.size \o <<" ">> \o txt.w12_500 \o <<" ">> \o txt.by
                                      \o <<" ">> \o txt.h8_000 \o <<" ", ";">>) =>
              /\ lef_result = <<[none |-> FALSE, m |-> 125, e |-> 1],
                                [none |-> FALSE, m |-> 8, e |-> 0]>>
              /\ FloatProduct(lef_result[1], lef_result[2]) = [none |-> FALSE, m |-> 100, e |-> 0]
        /\ (~lef_file.readable \/ RecordsIn(lef_file.content) = {}) =>
              lef_result = <<None, None>> /\ lef_out # <<>>

\* the state of the variables of extract_cell_size while another script runs
LefIdle ==
    /\ lef_pc = "idle"
    /\ lef_file = [readable |-> FALSE, path |-> "", content |-> <<>>, error |-> ""]
    /\ lef_result = <<None, None>>
    /\ lef_out = <<>>

(***************************************************************************)
(* extract_stdcell_sizes.py: main                                          *)
(***************************************************************************)
\* in ascending order as strings, so that sorting rows by the library's
\* position sorts them by the library's name
STDCELL_LIBS == <<"gf180mcu_fd_sc_mcu7t5v0", "gf180mcu_fd_sc_mcu9t5v0">>

\* relative to the working directory
PDK_PATH == "gf180mcu-pdk"

lib_path(lib) == PDK_PATH \o "/libraries/" \o lib \o "/latest/docs/cells"

RECURSIVE JoinChars(_)
\* a text as one string
JoinChars(s) == IF s = <<>> THEN "" ELSE Head(s) \o JoinChars(Tail(s))

\* basename.split('.')[0]
extract_cell_name_from_path(basename) ==
    SubSeq(basename, 1, SkipWhile(basename, 1, {c \in {basename[k] : k \in 1..Len(basename)} : c # "."}) - 1)

\* the characters of cell names in the order of their code points
CodePointOrder == <<".">> \o DigitChars \o UpperAlpha \o <<"_">> \o LowerAlpha

CodePoint(c) == CHOOSE k \in 1..Len(CodePointOrder) : CodePointOrder[k] = c

RECURSIVE TextLess(_, _)
\* a < b for two strings of Python
TextLess(a, b) ==
    IF b = <<>> THEN FALSE
    ELSE IF a = <<>> THEN TRUE
    ELSE IF Head(a) # Head(b) THEN CodePoint(Head(a)) < CodePoint(Head(b))
    ELSE TextLess(Tail(a), Tail(b))

\* (x['library'], x['name']) < (y['library'], y['name'])
RowLess(x, y) ==
    \/ x.lib < y.lib
    \/ x.lib = y.lib /\ TextLess(x.name, y.name)

RECURSIVE InsertRow(_, _)
\* row put behind the last element of the sorted list that is not greater
InsertRow(sorted, row) ==
    IF sorted = <<>> THEN <<row>>
    ELSE IF RowLess(row, sorted[Len(sorted)])
         THEN InsertRow(SubSeq(sorted, 1, Len(sorted) - 1), row) \o <<sorted[Len(sorted)]>>
         ELSE sorted \o <<row>>

RECURSIVE SortRows(_)
\* cell_data.sort(key=lambda x: (x['library'], x['name'])), a stable sort
SortRows(data) ==
    IF data = <<>> THEN <<>>
    ELSE InsertRow(SortRows(SubSeq(data, 1, Len(data) - 1)), data[Len(data)])

\* mutant: no name counts as processed
AlreadyProcessed_Never(name, unique) == FALSE

\* cell_name in unique_cells
AlreadyProcessed(name, unique) == name \in unique

\* mutant: every visited name is marked, whether or not a size was found
MarkProcessed_Always(name, unique, found) == unique \cup {name}

\* unique_cells[cell_name] = True, inside the branch that found a size
MarkProcessed(name, unique, found) == IF found THEN unique \cup {name} ELSE unique

fieldnames == <<"library", "type", "name", "width_um", "height_um", "area_um2">>

csv_name == "gf180mcu_stdcell_sizes.csv"

NoFile == [written |-> FALSE, name |-> "", header |-> <<>>, rows |-> <<>>]

MaxLefFiles == 2

\* the LEF files a library may hold: directory of the cell type and base name
LefPaths ==
    {[cell_type |-> "and2", basename |-> txt.a_lef],
     [cell_type |-> "and2", basename |-> txt.a_v2_lef],
     [cell_type |-> "buf", basename |-> txt.b_lef]}

\* their texts: two with a size, one without
MainTexts ==
    {txt.size \o <<" ">> \o txt.w12_500 \o <<" ">> \o txt.by \o <<" ">> \o txt.h8_000 \o <<" ", ";">>,
     txt.macro \o txt.size \o <<" ">> \o txt.w1_5 \o <<" ">> \o txt.by \o <<" ">> \o txt.h8_000 \o <<";">> \o txt.end,
     txt.macro \o txt.end}

\* the files of one library in the order the loops over cell_types and
\* lef_files visit them: no file twice, the files of a directory in a row
LibWalks ==
    {w \in UNION {[1..n -> [cell_type : {"and2", "buf"}, basename : {txt.a_lef, txt.a_v2_lef, txt.b_lef},
                            content : MainTexts]] : n \in 0..MaxLefFiles} :
        /\ \A k \in 1..Len(w) : [cell_type |-> w[k].cell_type, basename |-> w[k].basename] \in LefPaths
        /\ \A j, k \in 1..Len(w) : j # k => w[j].basename # w[k].basename
        /\ \A i, j, k \in 1..Len(w) :
              (i < j /\ j < k /\ w[i].cell_type = w[k].cell_type) => w[j].cell_type = w[i].cell_type}

SizesInit ==
    /\ sizes_pc = "start"
    /\ pdk \in [1..Len(STDCELL_LIBS) ->
                   {[exists |-> FALSE, files |-> <<>>]} \cup {[exists |-> TRUE, files |-> w] : w \in LibWalks}]
    /\ lib_index = 1
    /\ file_index = 1
    /\ cell_data = <<>>
    /\ unique_cells = {}
    /\ csv_file = NoFile

\* main up to the library loop
MainStart ==
    /\ sizes_pc = "start"
    /\ cell_data' = <<>>
    /\ unique_cells' = {}
    /\ lef_out' = lef_out \o <<"Extracting standard cell sizes from GF180MCU PDK...">>
    /\ sizes_pc' = "libs"
    /\ UNCHANGED <<pdk, lib_index, file_index, csv_file>>
    /\ UNCHANGED notSizesVars

\* one pass of the library loop up to its first file
MainEnterLibrary ==
    /\ sizes_pc = "libs"
    /\ lib_index <= Len(STDCELL_LIBS)
    /\ IF ~pdk[lib_index].exists
       THEN /\ lef_out' = lef_out \o <<"Library path not found: " \o lib_path(STDCELL_LIBS[lib_index])>>
            /\ lib_index' = lib_index + 1
            /\ UNCHANGED <<sizes_pc, file_index>>
       ELSE /\ lef_out' = lef_out \o <<"Processing library: " \o STDCELL_LIBS[lib_index]>>
            /\ IF pdk[lib_index].files = <<>>
               THEN lib_index' = lib_index + 1 /\ UNCHANGED <<sizes_pc, file_index>>
               ELSE sizes_pc' = "files" /\ file_index' = 1 /\ UNCHANGED lib_index
    /\ UNCHANGED <<pdk, cell_data, unique_cells, csv_file>>
    /\ UNCHANGED notSizesVars

\* the full path of a file of the library
lef_file_path(lib, f) == lib_path(lib) \o "/" \o f.cell_type \o "/" \o JoinChars(f.basename)

\* one pass of the loop over lef_files
MainProcessLefFile ==
    /\ sizes_pc = "files"
    /\ LET lib == STDCELL_LIBS[lib_index]
           f == pdk[lib_index].files[file_index]
           name == extract_cell_name_from_path(f.basename)
           call == extract_cell_size([readable |-> TRUE, path |-> lef_file_path(lib, f),
                                      content |-> f.content, error |-> ""])
           width == call.value[1]
           height == call.value[2]
           found == ~width.none /\ ~height.none
           cell_info == [lib |-> lib_index, library |-> lib, type |-> f.cell_type,
                         name |-> name, width_um |-> width, height_um |-> height,
                         area_um2 |-> FloatProduct(width, height)]
       IN  IF AlreadyProcessed(name, unique_cells)
           THEN UNCHANGED <<cell_data, unique_cells, lef_out>>
           ELSE /\ lef_out' = lef_out \o call.printed
                /\ cell_data' = IF found THEN Append(cell_data, cell_info) ELSE cell_data
                /\ unique_cells' = MarkProcessed(name, unique_cells, found)
    /\ IF file_index < Len(pdk[lib_index].files)
       THEN file_index' = file_index + 1 /\ UNCHANGED <<sizes_pc, lib_index>>
       ELSE sizes_pc' = "libs" /\ lib_index' = lib_index + 1 /\ UNCHANGED file_index
    /\ UNCHANGED <<pdk, csv_file>>
    /\ UNCHANGED notSizesVars

\* main after the library loop: sort, write the CSV file, print the summary
MainWriteReport ==
    /\ sizes_pc = "libs"
    /\ lib_index > Len(STDCELL_LIBS)
    /\ cell_data' = SortRows(cell_data)
    /\ csv_file' = [written |-> TRUE, name |-> csv_name, header |-> fieldnames,
                    rows |-> SortRows(cell_data)]
    /\ lef_out' = lef_out \o <<"Successfully extracted " \o ToString(Len(cell_data)) \o " cell sizes.",
                               "CSV report written to: " \o csv_name>>
    /\ sizes_pc' = "exit"
    /\ UNCHANGED <<pdk, lib_index, file_index, unique_cells>>
    /\ UNCHANGED notSizesVars

\* the state of the variables of main while another script runs
SizesIdle ==
    /\ sizes_pc = "idle"
    /\ pdk = <<>>
    /\ lib_index = 0
    /\ file_index = 0
    /\ cell_data = <<>>
    /\ unique_cells = {}
    /\ csv_file = NoFile

(***************************************************************************)
(* Claims about extract_stdcell_sizes.main                                 *)
(***************************************************************************)
RECURSIVE TraversalFrom(_)
\* every LEF file of the PDK in the order main visits them, from library k on
TraversalFrom(k) ==
    IF k > Len(pdk) THEN <<>>
    ELSE IF pdk[k].files = <<>> THEN TraversalFrom(k + 1)
    ELSE [i \in 1..Len(pdk[k].files) |->
             [lib |-> k, file |-> pdk[k].files[i],
              name |-> extract_cell_name_from_path(pdk[k].files[i].basename)]]
         \o TraversalFrom(k + 1)

Traversal == TraversalFrom(1)

\* the SIZE records of each text a file of the PDK may hold
MainTextRecords == [t \in MainTexts |-> DecimalRecordsIn(t)]

\* the row describes the file: its library, directory, width and height
RowComesFrom(row, t) ==
    /\ row.lib = t.lib
    /\ row.type = t.file.cell_type
    /\ row.name = t.name
    /\ \E p \in MainTextRecords[t.file.content] :
          row.width_um = ToFloat(p[1]) /\ row.height_um = ToFloat(p[2])

AtMostOneRowPerName ==
    \A i, j \in 1..Len(csv_file.rows) :
        csv_file.rows[i].name = csv_file.rows[j].name => i = j

\* C9 as stated: the report has at most one row per cell name, and the row of
\* a name comes from the first file with that name in the traversal order.
C9_AsClaimed ==
    sizes_pc = "exit" =>
        /\ AtMostOneRowPerName
        /\ \A i \in 1..Len(csv_file.rows) :
              LET first == SetMin({k \in 1..Len(Traversal) : Traversal[k].name = csv_file.rows[i].name})
              IN  RowComesFrom(csv_file.rows[i], Traversal[first])

\* the positions of the traversal whose file has the name and holds a size
\* main can read
SizedFiles(name) ==
    {k \in 1..Len(Traversal) :
        Traversal[k].name = name /\ MainTextRecords[Traversal[k].file.content] # {}}

\* C9: the report has at most one row per cell name; a name has a row exactly
\* when some file with that name holds a size, and the row comes from the first
\* such file in the traversal order (libraries in STDCELL_LIBS order), files of
\* that name visited earlier without a size leaving no row.
C9_FirstSizedFileWins ==
    sizes_pc = "exit" =>
        /\ AtMostOneRowPerName
        /\ \A i \in 1..Len(csv_file.rows) :
              /\ SizedFiles(csv_file.rows[i].name) # {}
              /\ RowComesFrom(csv_file.rows[i], Traversal[SetMin(SizedFiles(csv_file.rows[i].name))])
        /\ \A k \in 1..Len(Traversal) :
              SizedFiles(Traversal[k].name) # {} =>
                  \E i \in 1..Len(csv_file.rows) : csv_file.rows[i].name = Traversal[k].name

\* C9 has a case: three files are named "a"; the first visited holds no size,
\* the two after it hold different sizes, and the one row of "a" in the report
\* comes from the second file
C9_Witness ==
    /\ sizes_pc = "exit"
    /\ AtMostOneRowPerName
    /\ \E i, j, k \in 1..Len(Traversal) :
          /\ i < j /\ j < k
          /\ \A n \in {i, j, k} : Traversal[n].name = <<"a">>
          /\ SizedFiles(<<"a">>) = {j, k}
          /\ Traversal[j].file.content # Traversal[k].file.content
          /\ \E r \in 1..Len(csv_file.rows) :
                /\ csv_file.rows[r].name = <<"a">>
                /\ RowComesFrom(csv_file.rows[r], Traversal[j])
                /\ ~RowComesFrom(csv_file.rows[r], Traversal[k])

(***************************************************************************)
(* stdcell_grid.py: group_cells_by_base_and_size                           *)
(*                                                                         *)
(* A cell is [id, name]: id tells apart the objects of the list, name is   *)
(* cell.name.  An entry of a group is [size, cell], the tuple (size, cell).*)
(***************************************************************************)
\* re.match(r'(.+?)_(?:([1-9]|1[0-9]|2[0-9]|3[0-2]|64))$', name): the places
\* of the underscore for which the pattern matches, the base before it being
\* at least one character
SizedNameSplits(name) ==
    {i \in 2..Len(name) : name[i] = "_" /\ IsSizeToken(SubSeq(name, i + 1, Len(name)))}

\* the match object: the reluctant group 1 takes the shortest base
MatchSizedName(name) ==
    IF SizedNameSplits(name) = {} THEN [ok |-> FALSE, base |-> <<>>, size |-> <<>>]
    ELSE LET i == SetMin(SizedNameSplits(name))
         IN  [ok |-> TRUE, base |-> SubSeq(name, 1, i - 1), size |-> SubSeq(name, i + 1, Len(name))]

\* cell_groups[key].append(entry) on a defaultdict(list)
AppendToGroup(groups, key, entry) ==
    IF \E k \in 1..Len(groups) : groups[k].key = key
    THEN [k \in 1..Len(groups) |->
             IF groups[k].key = key
             THEN [key |-> key, group |-> Append(groups[k].group, entry)]
             ELSE groups[k]]
    ELSE Append(groups, [key |-> key, group |-> <<entry>>])

RECURSIVE CollectGroups(_, _)
\* the loop over cells, groups being the dictionary so far
CollectGroups(todo, groups) ==
    IF todo = <<>> THEN groups
    ELSE LET cell == Head(todo)
             match == MatchSizedName(cell.name)
         IN  IF match.ok
             THEN CollectGroups(Tail(todo),
                      AppendToGroup(groups, match.base, [size |-> match.size, cell |-> cell]))
             ELSE CollectGroups(Tail(todo),
                      AppendToGroup(groups, cell.name, [size |-> <<"1">>, cell |-> cell]))

\* mutant: the entries are compared as strings; for the one- and two-digit
\* sizes this is the order of first digit, then length, then second digit
SizeKey_AsText(text) ==
    IF Len(text) = 1 THEN 100 * DigitValue(text[1])
    ELSE 100 * DigitValue(text[1]) + 1 + DigitValue(text[2])

\* int(x[0]) if x[0].isdigit() else int(re.sub(r'\D', '', x[0]))
SizeKey(text) ==
    IF text # <<>> /\ \A k \in 1..Len(text) : text[k] \in Digits
    THEN DigitsValue(text)
    ELSE DigitsValue(SelectSeq(text, LAMBDA c : c \in Digits))

RECURSIVE InsertEntry(_, _)
\* entry put behind the last element of the sorted list whose key is not greater
InsertEntry(sorted, entry) ==
    IF sorted = <<>> THEN <<entry>>
    ELSE IF SizeKey(entry.size) < SizeKey(sorted[Len(sorted)].size)
         THEN InsertEntry(SubSeq(sorted, 1, Len(sorted) - 1), entry) \o <<sorted[Len(sorted)]>>
         ELSE sorted \o <<entry>>

RECURSIVE SortGroup(_)
\* group.sort(key=...), a stable sort
SortGroup(group) ==
    IF group = <<>> THEN <<>>
    ELSE InsertEntry(SortGroup(SubSeq(group, 1, Len(group) - 1)), group[Len(group)])

RECURSIVE JoinSizes(_)
\* ', '.join(sizes)
JoinSizes(group) ==
    IF group = <<>> THEN ""
    ELSE IF Len(group) = 1 THEN JoinChars(group[1].size)
    ELSE JoinChars(group[1].size) \o ", " \o JoinSizes(Tail(group))

\* group_cells_by_base_and_size(cells): [value, printed]
group_cells_by_base_and_size(cs) ==
    LET collected == CollectGroups(cs, <<>>)
        sorted == [k \in 1..Len(collected) |->
                      [key |-> collected[k].key, group |-> SortGroup(collected[k].group)]]
    IN  [value |-> sorted,
         printed |-> <<"\nCell groupings by size variation:">>
                     \o [k \in 1..Len(sorted) |->
                            "  " \o JoinChars(sorted[k].key) \o ": "
                            \o ToString(Len(sorted[k].group)) \o " variations - sizes: "
                            \o JoinSizes(sorted[k].group)]]

MaxCells == 4

\* the cell names the cells of the input carry
GroupNames ==
    {<<"b","u","f","_","1">>, <<"b","u","f","_","2">>, <<"b","u","f","_","1","6">>,
     <<"c","u","s","t","o","m">>, <<"b","u","f">>, <<"b","u","f","_","3","3">>,
     <<"a","_","b","_","4">>, <<"_","5">>, <<"b","u","f","_","0","2">>}

GroupInit ==
    /\ group_pc = "call"
    /\ \E n \in 0..MaxCells : \E names \in [1..n -> GroupNames] :
          cells = [i \in 1..n |-> [id |-> i, name |-> names[i]]]
    /\ cell_groups = <<>>
    /\ group_out = <<>>

\* a call of group_cells_by_base_and_size(cells)
GroupCellsByBaseAndSize ==
    /\ group_pc = "call"
    /\ cell_groups' = group_cells_by_base_and_size(cells).value
    /\ group_out' = group_out \o group_cells_by_base_and_size(cells).printed
    /\ group_pc' = "done"
    /\ UNCHANGED cells
    /\ UNCHANGED notGroupVars

\* the state of the variables of the grouping while another script runs
GroupIdle ==
    /\ group_pc = "idle"
    /\ cells = <<>>
    /\ cell_groups = <<>>
    /\ group_out = <<>>

(***************************************************************************)
(* Claims about group_cells_by_base_and_size                               *)
(***************************************************************************)
\* the valid sizes
ValidSizes == (1..32) \cup {64}

\* the ways to read name as <base>_<N>: a base of k >= 1 characters, an
\* underscore, and the numeral of a valid size N
SizedForms(name) ==
    {f \in (1..Len(name)) \X ValidSizes :
        SubSeq(name, f[1] + 1, Len(name)) = <<"_">> \o Numeral(f[2])}

\* the places <<g, j>> of the returned groups that hold the cell
PlacesOf(cell) ==
    {pl \in (1..Len(cell_groups)) \X (1..Len(cells)) :
        /\ pl[2] <= Len(cell_groups[pl[1]].group)
        /\ cell_groups[pl[1]].group[pl[2]].cell = cell}

\* C10: a cell named <base>_<N> with N in {1..32, 64} is in the group <base>
\* with size N; the sizes of every group ascend as numbers; every cell of the
\* input is in exactly one group exactly once.
C10_GroupedAndSortedBySize ==
    group_pc = "done" =>
        /\ \A i \in 1..Len(cells) : \A f \in SizedForms(cells[i].name) :
              \E pl \in PlacesOf(cells[i]) :
                  /\ cell_groups[pl[1]].key = SubSeq(cells[i].name, 1, f[1])
                  /\ cell_groups[pl[1]].group[pl[2]].size = Numeral(f[2])
        /\ \A g \in 1..Len(cell_groups) : \A j, k \in 1..Len(cell_groups[g].group) :
              j < k => DigitsValue(cell_groups[g].group[j].size)
                           <= DigitsValue(cell_groups[g].group[k].size)
        /\ \A i \in 1..Len(cells) : Cardinality(PlacesOf(cells[i])) = 1
        /\ \A g, h \in 1..Len(cell_groups) : cell_groups[g].key = cell_groups[h].key => g = h

\* C10 has a case: buf_16, buf_2 and buf_1 arrive with the largest first and
\* the group buf holds them with sizes 1, 2, 16
C10_Witness ==
    /\ group_pc = "done"
    /\ Len(cells) >= 3
    /\ cells[1].name = <<"b","u","f","_","1","6">>
    /\ cells[2].name = <<"b","u","f","_","2">>
    /\ cells[3].name = <<"b","u","f","_","1">>
    /\ \E g \in 1..Len(cell_groups) :
          /\ cell_groups[g].key = <<"b","u","f">>
          /\ [j \in 1..3 |-> cell_groups[g].group[j].size] = <<<<"1">>, <<"2">>, <<"1","6">>>>
          /\ [j \in 1..3 |-> cell_groups[g].group[j].cell.id] = <<3, 2, 1>>

\* C11 as stated: every cell whose name does not read as <base>_<size> is the
\* one entry, with size "1", of a group keyed by its whole name, whatever else
\* the input list holds.
C11_UnparsedNamesAreSingletons ==
    group_pc = "done" =>
        \A i \in 1..Len(cells) :
            SizedForms(cells[i].name) = {} =>
                \E g \in 1..Len(cell_groups) :
                    /\ cell_groups[g].key = cells[i].name
                    /\ Len(cell_groups[g].group) = 1
                    /\ cell_groups[g].group[1] = [size |-> <<"1">>, cell |-> cells[i]]

\* C11, the failing case: the list is buf, buf_1; buf has no size suffix and
\* shares the group buf with buf_1
C11_SharedGroupCase ==
    /\ group_pc = "done"
    /\ [i \in 1..Len(cells) |-> cells[i].name] = <<<<"b","u","f">>, <<"b","u","f","_","1">>>>
    /\ Len(cell_groups) = 1
    /\ cell_groups[1].key = <<"b","u","f">>
    /\ [j \in 1..Len(cell_groups[1].group) |-> cell_groups[1].group[j].cell.id] = <<1, 2>>

(***************************************************************************)
(* stdcell_grid.py as a script: create_stdcell_grid up to the loaded cells *)
(* and the write of the GDS file                                           *)
(*                                                                         *)
(* A GDS file is [lib, cell_type, basename, width, height, error]: its     *)
(* place libraries/<lib>/latest/cells/<cell_type>/<basename> below the PDK *)
(* path, the size_info of the cell it holds, and the text of the exception *)
(* gf.import_gds raises on it, "" when the file loads.                     *)
(***************************************************************************)
\* the expanded path, $HOME standing for its value
GRID_PDK_PATH == "$HOME/github/google/gf180mcu-pdk"

gds_filename == "gf180mcu_stdcell_grid.gds"

\* gds_file.relative_to(pdk_path)
GdsRelativePath(f) ==
    "libraries/" \o STDCELL_LIBS[f.lib] \o "/latest/cells/" \o JoinChars(f.cell_type)
        \o "/" \o JoinChars(f.basename)

\* a < b for two paths below the PDK path: their parts are compared in turn
GdsPathLess(a, b) ==
    \/ a.lib < b.lib
    \/ a.lib = b.lib /\ TextLess(a.cell_type, b.cell_type)
    \/ a.lib = b.lib /\ a.cell_type = b.cell_type /\ TextLess(a.basename, b.basename)

RECURSIVE SortedGdsFiles(_)
\* sorted(gds_files)
SortedGdsFiles(fs) ==
    IF fs = {} THEN <<>>
    ELSE LET least == CHOOSE f \in fs : \A g \in fs \ {f} : GdsPathLess(f, g)
         IN  <<least>> \o SortedGdsFiles(fs \ {least})

\* os.path.splitext(basename)[0]: the text before the last point, a point
\* among the leading points of the name being no extension
SplitExtRoot(basename) ==
    LET lead == SkipWhile(basename, 1, {"."})
        dots == {k \in lead..Len(basename) : basename[k] = "."}
    IN  IF dots = {} THEN basename ELSE SubSeq(basename, 1, SetMax(dots) - 1)

MaxGdsFiles == 3

\* the GDS files the PDK may hold
GdsPaths ==
    {[lib |-> 1, cell_type |-> kw.buf, basename |-> <<"b","u","f","_","1",".","g","d","s">>, width |-> 2, height |-> 4],
     [lib |-> 1, cell_type |-> kw.buf, basename |-> <<"b","u","f","_","2",".","g","d","s">>, width |-> 3, height |-> 4],
     [lib |-> 1, cell_type |-> kw.inv, basename |-> <<"i","n","v","_","1",".","g","d","s">>, width |-> 1, height |-> 4],
     [lib |-> 2, cell_type |-> kw.buf, basename |-> <<"b","u","f","_","1",".","g","d","s">>, width |-> 2, height |-> 5],
     [lib |-> 2, cell_type |-> kw.inv, basename |-> <<"i","n","v",".","v","2",".","g","d","s">>, width |-> 1, height |-> 5]}

\* what import_gds raises on a file that does not load
GdsErrors == {"", "not a GDS file"}

\* the sets of files find_gds_files may return: some of the paths, each file
\* loading or not
GdsFileSets ==
    UNION {{{[lib |-> q.lib, cell_type |-> q.cell_type, basename |-> q.basename,
              width |-> q.width, height |-> q.height, error |-> e[q]] : q \in ps} :
               e \in [ps -> GdsErrors]} :
           ps \in {qs \in SUBSET GdsPaths : Cardinality(qs) <= MaxGdsFiles}}

\* the component before anything is added to it
EmptyComponent == [labels |-> <<>>, refs |-> <<>>]

NoGds == [written |-> FALSE, name |-> "", cells |-> <<>>, component |-> EmptyComponent]

StdgridInit ==
    /\ stdgrid_pc = "start"
    /\ grid_pdk \in {[exists |-> FALSE, files |-> {}]} \cup {[exists |-> TRUE, files |-> fs] : fs \in GdsFileSets}
    /\ gds_todo = <<>>
    /\ std_cells = <<>>
    /\ seen_cells = {}
    /\ stdgrid_out = <<>>
    /\ grid_gds = NoGds
    /\ grid_c = EmptyComponent

MaxGalleryFiles == 4

\* GDS files of one library whose names group and categorize in every way:
\* sizes of one base, a name without size that shares their group, a base in
\* capitals, a library prefix, names that start with no letter
GalleryPaths ==
    {[lib |-> 1, cell_type |-> kw.buf, basename |-> <<"b","u","f","_","1",".","g","d","s">>, width |-> 2, height |-> 4],
     [lib |-> 1, cell_type |-> kw.buf, basename |-> <<"b","u","f","_","1","6",".","g","d","s">>, width |-> 6, height |-> 4],
     [lib |-> 1, cell_type |-> kw.buf, basename |-> <<"b","u","f",".","g","d","s">>, width |-> 2, height |-> 5],
     [lib |-> 1, cell_type |-> kw.buf, basename |-> <<"B","U","F","_","4",".","g","d","s">>, width |-> 3, height |-> 4],
     [lib |-> 1, cell_type |-> kw.and, basename |-> <<"a","n","d","2","_","1",".","g","d","s">>, width |-> 3, height |-> 4],
     [lib |-> 1, cell_type |-> kw.and, basename |-> <<"x","_","_","n","a","n","d","2","_","1",".","g","d","s">>, width |-> 3, height |-> 4],
     [lib |-> 1, cell_type |-> kw.fill, basename |-> <<"_","5",".","g","d","s">>, width |-> 1, height |-> 4],
     [lib |-> 1, cell_type |-> kw.fill, basename |-> <<"_","5","_","1",".","g","d","s">>, width |-> 1, height |-> 3],
     [lib |-> 1, cell_type |-> kw.fill, basename |-> <<"2","x","_","1",".","g","d","s">>, width |-> 4, height |-> 7]}

\* the sets of files find_gds_files may return when every file loads
GalleryFileSets ==
    {{[lib |-> q.lib, cell_type |-> q.cell_type, basename |-> q.basename,
       width |-> q.width, height |-> q.height, error |-> ""] : q \in ps} :
        ps \in {qs \in SUBSET GalleryPaths : Cardinality(qs) \in 1..MaxGalleryFiles}}

\* a PDK whose cells all load
GalleryInit ==
    /\ stdgrid_pc = "start"
    /\ grid_pdk \in {[exists |-> TRUE, files |-> fs] : fs \in GalleryFileSets}
    /\ gds_todo = <<>>
    /\ std_cells = <<>>
    /\ seen_cells = {}
    /\ stdgrid_out = <<>>
    /\ grid_gds = NoGds
    /\ grid_c = EmptyComponent

\* create_stdcell_grid, lines 96-104: the PDK path
GridCheckPdk ==
    /\ stdgrid_pc = "start"
    /\ IF ~grid_pdk.exists
       THEN /\ stdgrid_out' = stdgrid_out \o <<"PDK path not found: " \o GRID_PDK_PATH>>
            /\ stdgrid_pc' = "exit1"
       ELSE /\ stdgrid_out' = stdgrid_out \o <<"Using PDK path: " \o GRID_PDK_PATH>>
            /\ stdgrid_pc' = "find"
    /\ UNCHANGED <<grid_pdk, gds_todo, std_cells, seen_cells, grid_gds, grid_c>>
    /\ UNCHANGED notStdgridVars

\* lines 106-118: the GDS files
GridFindFiles ==
    /\ stdgrid_pc = "find"
    /\ IF grid_pdk.files = {}
       THEN /\ stdgrid_out' = stdgrid_out
                \o <<"No standard cell GDS files found in " \o GRID_PDK_PATH>>
            /\ stdgrid_pc' = "exit1"
            /\ UNCHANGED <<gds_todo, std_cells, seen_cells>>
       ELSE /\ stdgrid_out' = stdgrid_out
                \o <<"Found " \o ToString(Cardinality(grid_pdk.files)) \o " standard cell GDS files">>
            /\ std_cells' = <<>>
            /\ seen_cells' = {}
            /\ gds_todo' = SortedGdsFiles(grid_pdk.files)
            /\ stdgrid_pc' = "load"
    /\ UNCHANGED <<grid_pdk, grid_gds, grid_c>>
    /\ UNCHANGED notStdgridVars

\* one pass of the loop of lines 118-141
GridLoadFile ==
    /\ stdgrid_pc = "load"
    /\ gds_todo # <<>>
    /\ LET gds_file == Head(gds_todo)
           filename_without_ext == SplitExtRoot(gds_file.basename)
       IN  IF gds_file.basename \in seen_cells
           THEN UNCHANGED <<std_cells, seen_cells, stdgrid_out>>
           ELSE IF gds_file.error # ""
           THEN /\ stdgrid_out' = stdgrid_out
                    \o <<"Failed to process GDS file " \o GRID_PDK_PATH \o "/"
                         \o GdsRelativePath(gds_file) \o ": " \o gds_file.error>>
                /\ UNCHANGED <<std_cells, seen_cells>>
           ELSE /\ std_cells' = Append(std_cells, [id |-> Len(std_cells) + 1,
                                                   name |-> filename_without_ext,
                                                   file |-> gds_file])
                /\ seen_cells' = seen_cells \cup {gds_file.basename}
                /\ stdgrid_out' = stdgrid_out
                    \o <<"Loaded cell: " \o JoinChars(filename_without_ext) \o " from: "
                         \o GdsRelativePath(gds_file)>>
    /\ gds_todo' = Tail(gds_todo)
    /\ UNCHANGED <<stdgrid_pc, grid_pdk, grid_gds, grid_c>>
    /\ UNCHANGED notStdgridVars

\* lines 143-147, after the loop
GridLoadDone ==
    /\ stdgrid_pc = "load"
    /\ gds_todo = <<>>
    /\ IF std_cells = <<>>
       THEN /\ stdgrid_out' = stdgrid_out \o <<"No standard cells could be loaded.">>
            /\ stdgrid_pc' = "exit1"
       ELSE /\ stdgrid_out' = stdgrid_out
                \o <<"\nSuccessfully loaded " \o ToString(Len(std_cells)) \o " cells">>
            /\ stdgrid_pc' = "loaded"
    /\ UNCHANGED <<grid_pdk, gds_todo, std_cells, seen_cells, grid_gds, grid_c>>
    /\ UNCHANGED notStdgridVars

(***************************************************************************)
(* create_stdcell_grid, lines 149-273: the groupings and the placement.    *)
(* A label is [text, x, y] and a reference [cell, x, y], the position      *)
(* being that of add_label and of ref.move; lengths are whole microns.     *)
(***************************************************************************)
UpperChar(c) ==
    IF \E i \in 1..Len(LowerAlpha) : LowerAlpha[i] = c
    THEN UpperAlpha[CHOOSE i \in 1..Len(LowerAlpha) : LowerAlpha[i] = c]
    ELSE c

\* str.upper() on ASCII text
ToUpper(s) == [i \in 1..Len(s) |-> UpperChar(s[i])]

\* category.upper() for the names of the table and 'other'
UpperCategory ==
    [clock |-> "CLOCK", aoi_oai |-> "AOI_OAI", arithmetic |-> "ARITHMETIC",
     buffers |-> "BUFFERS", logic_gates |-> "LOGIC_GATES", flip_flops |-> "FLIP_FLOPS",
     latches |-> "LATCHES", mux |-> "MUX", delay |-> "DELAY", special |-> "SPECIAL",
     other |-> "OTHER"]

\* name.rsplit('_', 1)[0]
RSplitHead(name) ==
    LET places == {i \in 1..Len(name) : name[i] = "_"}
    IN  IF places = {} THEN name ELSE SubSeq(name, 1, SetMax(places) - 1)

\* groups[category].append(cell) on a defaultdict(list)
AppendToCategory(groups, cat, cell) ==
    IF \E k \in 1..Len(groups) : groups[k].category = cat
    THEN [k \in 1..Len(groups) |->
             IF groups[k].category = cat
             THEN [category |-> cat, cells |-> Append(groups[k].cells, cell)]
             ELSE groups[k]]
    ELSE Append(groups, [category |-> cat, cells |-> <<cell>>])

RECURSIVE CollectCategories(_, _)
\* the loop over cells of create_functional_groups
CollectCategories(todo, groups) ==
    IF todo = <<>> THEN groups
    ELSE CollectCategories(Tail(todo),
             AppendToCategory(groups, grid_categorize_cell(Head(todo).name), Head(todo)))

RECURSIVE JoinNames(_)
\* ', '.join(example_cells)
JoinNames(names) ==
    IF names = <<>> THEN ""
    ELSE IF Len(names) = 1 THEN JoinChars(names[1])
    ELSE JoinChars(names[1]) \o ", " \o JoinNames(Tail(names))

\* the two lines printed for one category
CategoryLines(group) ==
    LET n == Len(group.cells)
        shown == IF n > 5 THEN 5 ELSE n
        example_cells == [k \in 1..shown |-> RSplitHead(group.cells[k].name)]
    IN  <<"  " \o group.category \o ": " \o ToString(n) \o " cells",
          "    Examples: " \o JoinNames(example_cells)
              \o (IF n > 5 THEN " and " \o ToString(n - 5) \o " more..." ELSE "")>>

\* create_functional_groups(cells): [value, printed]
create_functional_groups(cs) ==
    LET groups == CollectCategories(cs, <<>>)
    IN  [value |-> groups,
         printed |-> <<"\nCell groupings by functional category:">>
                     \o Concat([k \in 1..Len(groups) |-> CategoryLines(groups[k])])]

\* lines 174-183: the key of cell_groups the cell is looked up with
GroupKey(name) == IF MatchSizedName(name).ok THEN MatchSizedName(name).base ELSE name

\* cell_groups[key]
GroupOf(groups, key) == groups[CHOOSE k \in 1..Len(groups) : groups[k].key = key].group

\* category_groups[key] = group: a key the dictionary holds keeps its place
SetGroup(groups, key, group) ==
    IF \E k \in 1..Len(groups) : groups[k].key = key
    THEN [k \in 1..Len(groups) |->
             IF groups[k].key = key THEN [key |-> key, group |-> group] ELSE groups[k]]
    ELSE Append(groups, [key |-> key, group |-> group])

RECURSIVE CategoryGroups(_, _, _)
\* lines 169-183: the groups of cell_groups some cell of the category belongs to
CategoryGroups(todo, found, groups) ==
    IF todo = <<>> THEN found
    ELSE LET key == GroupKey(Head(todo).name)
         IN  IF \E k \in 1..Len(groups) : groups[k].key = key
             THEN CategoryGroups(Tail(todo), SetGroup(found, key, GroupOf(groups, key)), groups)
             ELSE CategoryGroups(Tail(todo), found, groups)

\* the characters [a-zA-Z]
Letters == {UpperAlpha[i] : i \in 1..Len(UpperAlpha)} \cup {LowerAlpha[i] : i \in 1..Len(LowerAlpha)}

\* lines 191-207: the key of name_prefixes a base name is listed under
PrefixKey(base_name) ==
    LET actual_cell_name == StripLibraryPrefix(base_name)
        n == SkipWhile(actual_cell_name, 1, Letters) - 1
    IN  IF n >= 1 THEN ToLower(SubSeq(actual_cell_name, 1, n)) ELSE actual_cell_name

RECURSIVE NamePrefixes(_, _, _)
\* lines 187-207: the loop over category_groups.keys(), from key k on
NamePrefixes(category_groups, k, found) ==
    IF k > Len(category_groups) THEN found
    ELSE NamePrefixes(category_groups, k + 1,
             AppendToGroup(found, PrefixKey(category_groups[k].key), category_groups[k].key))

padding == 10

vertical_cell_spacing == 1

\* max(cell.size_info.width for cell in std_cells)
max_width(cs) == SetMax({cs[i].file.width : i \in 1..Len(cs)})

max_height(cs) == SetMax({cs[i].file.height : i \in 1..Len(cs)})

\* mutant: only the first cell of a group is stacked
StackedEntries_FirstOnly(group) == <<group[1]>>

\* "for k, (size, cell) in enumerate(group)": the entries that are placed
StackedEntries(group) == group

\* lines 235-265: column j of a row, counted from 0: the label of the base
\* name, and one reference and one size label for each cell of the group
PlaceColumn(j, base_name, group, y_row, mw, mh) ==
    LET x_base == padding + j * (mw + padding) * 3
        y_cell == y_row - padding * 2
        placed == StackedEntries(group)
    IN  [labels |-> <<[text |-> JoinChars(base_name), x |-> x_base, y |-> y_row]>>
                    \o [k \in 1..Len(placed) |->
                           [text |-> "size: " \o JoinChars(placed[k].size),
                            x |-> x_base - padding \div 2,
                            y |-> y_cell - (k - 1) * (mh + vertical_cell_spacing)]],
         refs |-> [k \in 1..Len(placed) |->
                      [cell |-> placed[k].cell, x |-> x_base,
                       y |-> y_cell - (k - 1) * (mh + vertical_cell_spacing)]],
         column_height |-> Len(group) * (mh + vertical_cell_spacing) + padding]

\* lines 222-268: the row of one prefix at y_row
PlaceRow(prefix, category_groups, y_row, mw, mh) ==
    LET columns == [j \in 1..Len(prefix.group) |->
                       PlaceColumn(j - 1, prefix.group[j],
                                   GroupOf(category_groups, prefix.group[j]), y_row, mw, mh)]
    IN  [labels |-> <<[text |-> JoinChars(ToUpper(prefix.key)), x |-> 0, y |-> y_row]>>
                    \o Concat([j \in 1..Len(columns) |-> columns[j].labels]),
         refs |-> Concat([j \in 1..Len(columns) |-> columns[j].refs]),
         max_column_height |-> SetMax({0} \cup {columns[j].column_height : j \in 1..Len(columns)})]

RECURSIVE PlaceRows(_, _, _, _, _, _)
\* the loop over name_prefixes.items(), from prefix i on, y_offset moving
\* down by max_column_height + padding * 2 after every row
PlaceRows(prefixes, i, y_offset, category_groups, mw, mh) ==
    IF i > Len(prefixes) THEN [labels |-> <<>>, refs |-> <<>>, y_offset |-> y_offset]
    ELSE LET row == PlaceRow(prefixes[i], category_groups, y_offset, mw, mh)
             rest == PlaceRows(prefixes, i + 1, y_offset - (row.max_column_height + padding * 2),
                               category_groups, mw, mh)
         IN  [labels |-> row.labels \o rest.labels, refs |-> row.refs \o rest.refs,
              y_offset |-> rest.y_offset]

RECURSIVE PlaceCategories(_, _, _, _, _, _)
\* lines 167-271: the loop over functional_groups.items(), from category k on
PlaceCategories(functional_groups, k, y_offset, groups, mw, mh) ==
    IF k > Len(functional_groups) THEN EmptyComponent
    ELSE LET category_groups == CategoryGroups(functional_groups[k].cells, <<>>, groups)
             name_prefixes == NamePrefixes(category_groups, 1, <<>>)
             header == [text |-> "================ " \o UpperCategory[functional_groups[k].category]
                                    \o " ================",
                        x |-> 0, y |-> y_offset]
             placed == PlaceRows(name_prefixes, 1, y_offset - padding * 3, category_groups, mw, mh)
             rest == PlaceCategories(functional_groups, k + 1, placed.y_offset - padding * 4,
                                     groups, mw, mh)
         IN  [labels |-> <<header>> \o placed.labels \o rest.labels,
              refs |-> placed.refs \o rest.refs]

\* create_stdcell_grid, lines 149-273, for the loaded cells
GridPlaceCells ==
    /\ stdgrid_pc = "loaded"
    /\ LET grouped == group_cells_by_base_and_size(std_cells)
           functional == create_functional_groups(std_cells)
       IN  /\ stdgrid_out' = stdgrid_out
                  \o <<"\nGrouping cells by base name and size...">> \o grouped.printed
                  \o <<"\nGrouping cells by functional category...">> \o functional.printed
           /\ grid_c' = PlaceCategories(functional.value, 1, 0, grouped.value,
                                        max_width(std_cells), max_height(std_cells))
    /\ stdgrid_pc' = "placed"
    /\ UNCHANGED <<grid_pdk, gds_todo, std_cells, seen_cells, grid_gds>>
    /\ UNCHANGED notStdgridVars

\* lines 277-282 of the script, once create_stdcell_grid has returned
GridWriteGds ==
    /\ stdgrid_pc = "placed"
    /\ grid_gds' = [written |-> TRUE, name |-> gds_filename, cells |-> std_cells,
                    component |-> grid_c]
    /\ stdgrid_out' = stdgrid_out \o <<"\nWritten grid to " \o gds_filename>>
    /\ stdgrid_pc' = "done"
    /\ UNCHANGED <<grid_pdk, gds_todo, std_cells, seen_cells, grid_c>>
    /\ UNCHANGED notStdgridVars

\* the state of the variables of stdcell_grid.py while another script runs
StdgridIdle ==
    /\ stdgrid_pc = "idle"
    /\ grid_pdk = [exists |-> FALSE, files |-> {}]
    /\ gds_todo = <<>>
    /\ std_cells = <<>>
    /\ seen_cells = {}
    /\ stdgrid_out = <<>>
    /\ grid_gds = NoGds
    /\ grid_c = EmptyComponent

(***************************************************************************)
(* Claims about the placement of create_stdcell_grid                       *)
(***************************************************************************)
\* the references of the component that instantiate the loaded cell i
RefsOfCell(i) == {k \in 1..Len(grid_c.refs) : grid_c.refs[k].cell = std_cells[i]}

\* the cells of one group of group_cells_by_base_and_size are of one category
OneCategoryPerGroup ==
    LET groups == group_cells_by_base_and_size(std_cells).value
    IN  \A g \in 1..Len(groups) :
            \A a, b \in 1..Len(groups[g].group) :
                grid_categorize_cell(groups[g].group[a].cell.name)
                    = grid_categorize_cell(groups[g].group[b].cell.name)

\* C21: create_stdcell_grid places every loaded cell exactly once: the cells
\* of one base-name group are all of the same functional category, every
\* loaded cell is the cell of exactly one reference of the component (none
\* left out, none placed under two categories or in two rows), and every
\* reference is of a loaded cell.
C21_EveryCellPlacedOnce ==
    stdgrid_pc \in {"placed", "done"} =>
        /\ OneCategoryPerGroup
        /\ \A i \in 1..Len(std_cells) : Cardinality(RefsOfCell(i)) = 1
        /\ Len(grid_c.refs) = Len(std_cells)
        /\ \A k \in 1..Len(grid_c.refs) : \E i \in 1..Len(std_cells) : grid_c.refs[k].cell = std_cells[i]
        /\ stdgrid_pc = "done" => grid_gds.component = grid_c

\* the reason behind C21, for every cell name of the categorizer's inputs: the
\* category of a cell is the category its group key alone would get, so
\* cells that share a key share the category
C21_GroupKeyDecidesCategory ==
    cell_name # <<>> =>
        grid_categorize_cell(cell_name)
            = FindCategory(grid_categories, ToLower(GroupKey(cell_name)))

\* four cells in three categories: buf and buf_1 share the group buf and
\* are stacked in one column, and2_1 and _5 have a row of their own each
C21_Witness ==
    /\ stdgrid_pc = "done"
    /\ [i \in 1..Len(std_cells) |-> std_cells[i].name]
           = << <<"a","n","d","2","_","1">>, <<"b","u","f">>, <<"b","u","f","_","1">>, <<"_","5">> >>
    /\ Len(grid_gds.component.refs) = 4
    /\ \E k, l \in 1..4 :
          /\ grid_c.refs[k].cell.name = <<"b","u","f">>
          /\ grid_c.refs[l].cell.name = <<"b","u","f","_","1">>
          /\ grid_c.refs[k].x = grid_c.refs[l].x
          /\ grid_c.refs[k].y # grid_c.refs[l].y

(***************************************************************************)
(* Claims about the failures of the scripts that read the PDK              *)
(***************************************************************************)
\* extract_stdcell_sizes.main: a library path is missing, or no LEF file was
\* found, or no size was extracted
SizesRunFails ==
    \/ \E k \in 1..Len(pdk) : ~pdk[k].exists
    \/ Traversal = <<>>
    \/ \A k \in 1..Len(Traversal) : MainTextRecords[Traversal[k].file.content] = {}

\* stdcell_grid.py: the PDK path is missing, or no GDS file was found, or no
\* cell was loaded
GridRunFails ==
    \/ ~grid_pdk.exists
    \/ grid_pdk.files = {}
    \/ \A f \in grid_pdk.files : f.error # ""

\* the diagnostics of stdcell_grid.py
GridDiagnostics ==
    {"PDK path not found: " \o GRID_PDK_PATH,
     "No standard cell GDS files found in " \o GRID_PDK_PATH,
     "No standard cells could be loaded."}

\* the run of stdcell_grid.py that fails ends in sys.exit(1) right after its
\* diagnostic and writes no GDS file
GridFailureTerminates ==
    /\ (stdgrid_pc \in {"exit1", "done"} /\ GridRunFails) =>
          /\ stdgrid_pc = "exit1"
          /\ stdgrid_out[Len(stdgrid_out)] \in GridDiagnostics
    /\ (stdgrid_pc # "idle" /\ GridRunFails) => ~grid_gds.written
    /\ stdgrid_pc = "exit1" => GridRunFails

\* C12 as stated: in both scripts a missing PDK or library path, or an empty
\* result set, ends the run with a diagnostic, and no output file is written
\* in that run.
C12_FailureWritesNoOutput ==
    /\ GridFailureTerminates
    /\ (sizes_pc = "exit" /\ SizesRunFails) => ~csv_file.written

\* C12 for stdcell_grid.py alone
C12_GridScriptOnly == GridFailureTerminates

\* C12, the failing case: both library paths are missing, and main has written
\* the CSV file with no row and reported success
C12_MissingLibrariesCase ==
    /\ sizes_pc = "exit"
    /\ \A k \in 1..Len(pdk) : ~pdk[k].exists
    /\ csv_file = [written |-> TRUE, name |-> csv_name, header |-> fieldnames, rows |-> <<>>]
    /\ lef_out[Len(lef_out) - 1] = "Successfully extracted 0 cell sizes."

\* the file at position k of the traversal holds no size, and main opens it:
\* no file of its name before it has supplied a row
UnsizedFileRead(k) ==
    /\ MainTextRecords[Traversal[k].file.content] = {}
    /\ \A j \in SizedFiles(Traversal[k].name) : j > k

\* the warning main prints for the file at position k
SizeWarning(k) ==
    "Warning: Could not find size in "
        \o lef_file_path(STDCELL_LIBS[Traversal[k].lib], Traversal[k].file)

\* extract_stdcell_sizes.main skips a file without SIZE and goes on: the file
\* has its warning and no row, and every name some file holds a size for has
\* its row, from the first such file
SizesSkipAndContinue ==
    sizes_pc = "exit" =>
        /\ \A k \in 1..Len(Traversal) :
              UnsizedFileRead(k) => \E n \in 1..Len(lef_out) : lef_out[n] = SizeWarning(k)
        /\ \A r \in 1..Len(csv_file.rows) :
              \E j \in SizedFiles(csv_file.rows[r].name) :
                  RowComesFrom(csv_file.rows[r], Traversal[j])
        /\ \A k \in 1..Len(Traversal) :
              (SizedFiles(Traversal[k].name) # {} /\ k = SetMin(SizedFiles(Traversal[k].name))) =>
                  \E r \in 1..Len(csv_file.rows) : RowComesFrom(csv_file.rows[r], Traversal[k])
        /\ csv_file.written

\* the files of the run of stdcell_grid.py with the basename, in sorted order
\* before f
GdsBefore(f) ==
    {g \in grid_pdk.files : g.basename = f.basename /\ GdsPathLess(g, f)}

\* create_stdcell_grid reports a file that fails to load and goes on: once the
\* loop is through, the file has its message and no cell, and every file that
\* loads, no loaded file of its basename before it, has its cell
GridSkipAndContinue ==
    (stdgrid_pc \in {"loaded", "done", "exit1"} /\ grid_pdk.files # {}) =>
        \A f \in grid_pdk.files :
            /\ (f.error # "" /\ \A g \in GdsBefore(f) : g.error # "") =>
                  /\ \E n \in 1..Len(stdgrid_out) :
                        stdgrid_out[n] = "Failed to process GDS file " \o GRID_PDK_PATH \o "/"
                                             \o GdsRelativePath(f) \o ": " \o f.error
                  /\ \A i \in 1..Len(std_cells) : std_cells[i].file # f
            /\ (f.error = "" /\ \A g \in GdsBefore(f) : g.error # "") =>
                  Cardinality({i \in 1..Len(std_cells) : std_cells[i].file = f}) = 1

\* C13: a failure of one item is skipped and the run continues.  In
\* extract_stdcell_sizes.main a LEF file without a SIZE record gets a warning
\* and no report row while every other file is still processed and reported;
\* in create_stdcell_grid a layout file that fails to load is reported and
\* skipped while the remaining files are still loaded.
C13_SkipAndContinue == SizesSkipAndContinue /\ GridSkipAndContinue

\* C13 has a case: the first file main visits, a, holds no size, a later file b
\* does; the run has printed the warning for a and reports b
C13_Witness ==
    /\ sizes_pc = "exit"
    /\ Len(Traversal) >= 2
    /\ UnsizedFileRead(1)
    /\ Traversal[1].name = <<"a">>
    /\ \E k \in SizedFiles(<<"b">>) : k > 1
    /\ \E n \in 1..Len(lef_out) : lef_out[n] = SizeWarning(1)
    /\ \E r \in 1..Len(csv_file.rows) : csv_file.rows[r].name = <<"b">>
    /\ \A r \in 1..Len(csv_file.rows) : csv_file.rows[r].name # <<"a">>

\* C13 has a case in stdcell_grid.py too: the first file in sorted order fails
\* to load and a later one is loaded and written
C13_GridCase ==
    /\ stdgrid_pc = "done"
    /\ \E f, g \in grid_pdk.files :
          /\ GdsPathLess(f, g)
          /\ f.error # "" /\ g.error = ""
          /\ f.basename # g.basename
          /\ \E i \in 1..Len(grid_gds.cells) : grid_gds.cells[i].file = g

(***************************************************************************)
(* metal_grid_with_vias.py: create_via and create_metal_grid               *)
(*                                                                         *)
(* Lengths are whole numbers of 0.01 um.  The pitch is a quotient by       *)
(* num_lines - 1 and the code halves the widths, so the rectangles of a    *)
(* grid hold their coordinates multiplied by scale = 2 * (num_lines - 1),  *)
(* which keeps them whole and exact.  The name of the grid component plays *)
(* no part and is left out.                                                *)
(***************************************************************************)
\* the digits of the fraction of n/100, 0 < n < 100, without trailing zero
TwoDigits(n) ==
    IF n % 10 = 0 THEN ToString(n \div 10) ELSE ToString(n \div 10) \o ToString(n % 10)

\* str(via_size) for the float of n hundredths
FloatText(n) ==
    ToString(n \div 100) \o "." \o (IF n % 100 = 0 THEN "0" ELSE TwoDigits(n % 100))

\* f"via5_{via_size}_{_via_counter}"
ViaName(vsize, counter) == "via5_" \o FloatText(vsize) \o "_" \o ToString(counter)

\* mutant: the counter starts again with every call
NextViaCounter_Restart(counter) == 1

\* _via_counter += 1
NextViaCounter(counter) == counter + 1

MaxViaCalls == 2

MaxGridSize == 5

MaxLines == 3

MaxWidth == 2

\* the values of min_spacing
MinSpacings == {1, 2}

\* the values of via_size create_via is called with on its own
LoneViaSizes == {26, 50}

\* the calls of main, and the call with every default
MainMetalArgs ==
    {[grid_size |-> 10000, num_lines |-> 20, m5_width |-> 45, mt_width |-> 45, via_size |-> 26, min_spacing |-> 50],
     [grid_size |-> 10000, num_lines |-> 40, m5_width |-> 45, mt_width |-> 45, via_size |-> 26, min_spacing |-> 50],
     [grid_size |-> 10000, num_lines |-> 15, m5_width |-> 80, mt_width |-> 80, via_size |-> 26, min_spacing |-> 50],
     [grid_size |-> 10000, num_lines |-> 10, m5_width |-> 44, mt_width |-> 44, via_size |-> 26, min_spacing |-> 46]}

MetalArgs ==
    [grid_size : 1..MaxGridSize, num_lines : 1..MaxLines, m5_width : 1..MaxWidth,
     mt_width : 1..MaxWidth, via_size : 1..MaxViaSize, min_spacing : MinSpacings]
    \cup MainMetalArgs

\* 2 * (num_lines - 1), the factor of the coordinates of a grid
GridScale(a) == 2 * (a.num_lines - 1)

\* pitch = max(grid_size / (num_lines - 1), m5_width + mt_width + min_spacing),
\* multiplied by num_lines - 1
ScaledPitch(a) ==
    LET even == a.grid_size
        least == (a.m5_width + a.mt_width + a.min_spacing) * (a.num_lines - 1)
    IN  IF even >= least THEN even ELSE least

\* the horizontal Metal 5 line i, i counted from 0
HorizLine(a, i) ==
    [x0 |-> 0, x1 |-> a.grid_size * GridScale(a),
     y0 |-> 2 * i * ScaledPitch(a) - a.m5_width * (a.num_lines - 1),
     y1 |-> 2 * i * ScaledPitch(a) + a.m5_width * (a.num_lines - 1)]

\* the vertical MT line i
VertLine(a, i) ==
    [x0 |-> 2 * i * ScaledPitch(a) - a.mt_width * (a.num_lines - 1),
     x1 |-> 2 * i * ScaledPitch(a) + a.mt_width * (a.num_lines - 1),
     y0 |-> 0, y1 |-> a.grid_size * GridScale(a)]

\* mutant: the corner of the via, not its centre, is put on the crossing
GridViaAt_Corner(a, i, j) ==
    [x0 |-> 2 * i * ScaledPitch(a), y0 |-> 2 * j * ScaledPitch(a),
     x1 |-> 2 * i * ScaledPitch(a) + a.via_size * GridScale(a),
     y1 |-> 2 * j * ScaledPitch(a) + a.via_size * GridScale(a)]

\* the via square after via_ref.move((x_pos - via_size/2, y_pos - via_size/2))
\* with x_pos = i * pitch and y_pos = j * pitch
GridViaAt(a, i, j) ==
    LET x == 2 * i * ScaledPitch(a) - a.via_size * (a.num_lines - 1)
        y == 2 * j * ScaledPitch(a) - a.via_size * (a.num_lines - 1)
    IN  [x0 |-> x, y0 |-> y,
         x1 |-> x + a.via_size * GridScale(a), y1 |-> y + a.via_size * GridScale(a)]

\* the component create_metal_grid builds, its via component being named via
MetalGridOf(a, via) ==
    LET n == a.num_lines
    IN  [built |-> TRUE,
         scale |-> GridScale(a),
         via |-> via,
         m5 |-> [k \in 1..n |-> HorizLine(a, k - 1)],
         mt |-> [k \in 1..n |-> VertLine(a, k - 1)],
         via_refs |-> [k \in 1..(n * n) |-> GridViaAt(a, (k - 1) \div n, (k - 1) % n)]]

NoGrid == [built |-> FALSE, scale |-> 0, via |-> "", m5 |-> <<>>, mt |-> <<>>, via_refs |-> <<>>]

\* the component of a call that raised ZeroDivisionError at line 64
RaisedGrid == [built |-> FALSE, scale |-> 0, via |-> "ZeroDivisionError", m5 |-> <<>>, mt |-> <<>>, via_refs |-> <<>>]

MetalInit ==
    /\ via_counter = 0
    /\ via_names = <<>>
    /\ mg_args \in MetalArgs
    /\ metal_grid = NoGrid

\* a call create_via(via_size)
CreateVia ==
    /\ via_counter < MaxViaCalls
    /\ \E vsize \in LoneViaSizes :
          /\ via_counter' = NextViaCounter(via_counter)
          /\ via_names' = Append(via_names, ViaName(vsize, NextViaCounter(via_counter)))
    /\ UNCHANGED <<mg_args, metal_grid>>
    /\ UNCHANGED notMetalVars

\* a call create_metal_grid(grid_size, num_lines, m5_width, mt_width, via_size,
\* min_spacing), the call of create_via at line 67 included
CreateMetalGrid ==
    /\ via_counter < MaxViaCalls
    /\ IF mg_args.num_lines = 1
       THEN /\ metal_grid' = RaisedGrid
            /\ UNCHANGED <<via_counter, via_names>>
       ELSE /\ via_counter' = NextViaCounter(via_counter)
            /\ via_names' = Append(via_names, ViaName(mg_args.via_size, NextViaCounter(via_counter)))
            /\ metal_grid' = MetalGridOf(mg_args, ViaName(mg_args.via_size, NextViaCounter(via_counter)))
    /\ UNCHANGED mg_args
    /\ UNCHANGED notMetalVars

(***************************************************************************)
(* Claims about the metal grid                                             *)
(***************************************************************************)
\* twice the centre of a rectangle, in the units of its grid
CentreX2(r) == r.x0 + r.x1

CentreY2(r) == r.y0 + r.y1

\* twice the distance of the centre lines of the first two horizontal lines
GridPitch2 == CentreY2(metal_grid.m5[2]) - CentreY2(metal_grid.m5[1])

\* C14: for num_lines >= 2 create_metal_grid places num_lines horizontal and
\* num_lines vertical lines, line i centred on i * pitch, and num_lines^2
\* vias: each crossing (i * pitch, j * pitch) is the centre of exactly one
\* via and every via is centred on a crossing.
C14_OneViaPerCrossing ==
    (metal_grid.built /\ mg_args.num_lines >= 2) =>
        LET n == mg_args.num_lines
            g == metal_grid
        IN  /\ Len(g.m5) = n /\ Len(g.mt) = n
            /\ GridPitch2 > 0
            /\ \A k \in 1..n : /\ CentreY2(g.m5[k]) = (k - 1) * GridPitch2
                               /\ CentreX2(g.mt[k]) = (k - 1) * GridPitch2
            /\ Len(g.via_refs) = n * n
            /\ \A i, j \in 0..(n - 1) :
                  Cardinality({k \in 1..Len(g.via_refs) :
                                  /\ CentreX2(g.via_refs[k]) = i * GridPitch2
                                  /\ CentreY2(g.via_refs[k]) = j * GridPitch2}) = 1
            /\ \A k \in 1..Len(g.via_refs) :
                  \E i, j \in 0..(n - 1) :
                      /\ CentreX2(g.via_refs[k]) = i * GridPitch2
                      /\ CentreY2(g.via_refs[k]) = j * GridPitch2

\* a grid of three lines each way whose pitch was raised to the least pitch
C14_Witness ==
    /\ metal_grid.built
    /\ mg_args.num_lines = 3
    /\ Len(metal_grid.via_refs) = 9
    /\ mg_args.grid_size < 2 * (mg_args.m5_width + mg_args.mt_width + mg_args.min_spacing)

\* rectangle v lies inside rectangle r
RectInside(v, r) == r.x0 <= v.x0 /\ v.x1 <= r.x1 /\ r.y0 <= v.y0 /\ v.y1 <= r.y1

\* C18: every via of create_metal_grid lies inside the rectangle of the
\* horizontal Metal 5 line and inside the rectangle of the vertical MT line
\* whose crossing it marks, the first and last lines and a raised pitch
\* included.
C18_ViasCoveredByMetal ==
    metal_grid.built =>
        LET n == mg_args.num_lines
        IN  \A k \in 1..Len(metal_grid.via_refs) :
                /\ RectInside(metal_grid.via_refs[k], metal_grid.m5[((k - 1) % n) + 1])
                /\ RectInside(metal_grid.via_refs[k], metal_grid.mt[((k - 1) \div n) + 1])

\* the grid of the default arguments: the via on the crossing (0, 0) is as
\* narrow as the lines but starts left of the Metal 5 line and below the MT line
C18_FirstViaOverhangs ==
    /\ metal_grid.built
    /\ mg_args = [grid_size |-> 10000, num_lines |-> 10, m5_width |-> 44, mt_width |-> 44,
                  via_size |-> 26, min_spacing |-> 46]
    /\ metal_grid.via_refs[1].x0 < metal_grid.m5[1].x0
    /\ metal_grid.via_refs[1].y0 < metal_grid.mt[1].y0
    /\ metal_grid.m5[1].y0 <= metal_grid.via_refs[1].y0
    /\ metal_grid.via_refs[1].y1 <= metal_grid.m5[1].y1

\* C19: _via_counter counts the calls of create_via, one step up per call
\* and never back, and no two calls return components of the same name,
\* whatever via_size they are given.
C19_ViaNamesAreUnique ==
    /\ via_counter = Len(via_names)
    /\ \A i, j \in 1..Len(via_names) : via_names[i] = via_names[j] => i = j

\* two calls with the same via_size
C19_Witness == via_names = <<"via5_0.26_1", "via5_0.26_2">>

\* the state of the variables of metal_grid_with_vias.py while another script runs
MetalIdle ==
    /\ via_counter = 0
    /\ via_names = <<>>
    /\ mg_args = [grid_size |-> 0, num_lines |-> 0, m5_width |-> 0, mt_width |-> 0,
                  via_size |-> 0, min_spacing |-> 0]
    /\ metal_grid = NoGrid

\* the state of the variables of the categorizer while another script runs
CatIdle ==
    /\ cell_name = <<>>
    /\ category = "idle"
    /\ grid_category = "idle"

Init == CatInit /\ StoreIdle /\ ViaIdle /\ LefIdle /\ SizesIdle /\ GroupIdle /\ StdgridIdle /\ MetalIdle

Next == CategorizeCell \/ GridCategorizeCell

\* the categorizers, called on one cell name
Spec == Init /\ [][Next]_vars

InitStore == StoreInit /\ CatIdle /\ ViaIdle /\ LefIdle /\ SizesIdle /\ GroupIdle /\ StdgridIdle /\ MetalIdle

NextStore == MainReadArgs \/ MainValidate \/ GenerateStoreModule \/ MainPrintUsage

\* one run of generate_store.py
SpecStore == InitStore /\ [][NextStore]_vars

InitVia == ViaInit /\ CatIdle /\ StoreIdle /\ LefIdle /\ SizesIdle /\ GroupIdle /\ StdgridIdle /\ MetalIdle

NextVia == CreateDenseViaArray

\* one call of create_dense_via_array
SpecVia == InitVia /\ [][NextVia]_vars

InitLef == LefInit /\ CatIdle /\ StoreIdle /\ ViaIdle /\ SizesIdle /\ GroupIdle /\ StdgridIdle /\ MetalIdle

NextLef == ExtractCellSize

\* one call of extract_cell_size
SpecLef == InitLef /\ [][NextLef]_vars

InitSizes == SizesInit /\ CatIdle /\ StoreIdle /\ ViaIdle /\ LefIdle /\ GroupIdle /\ StdgridIdle /\ MetalIdle

NextSizes == MainStart \/ MainEnterLibrary \/ MainProcessLefFile \/ MainWriteReport

\* one run of extract_stdcell_sizes.main
SpecSizes == InitSizes /\ [][NextSizes]_vars

InitGroup == GroupInit /\ CatIdle /\ StoreIdle /\ ViaIdle /\ LefIdle /\ SizesIdle /\ StdgridIdle /\ MetalIdle

NextGroup == GroupCellsByBaseAndSize

\* one call of group_cells_by_base_and_size
SpecGroup == InitGroup /\ [][NextGroup]_vars

InitStdgrid ==
    StdgridInit /\ CatIdle /\ StoreIdle /\ ViaIdle /\ LefIdle /\ SizesIdle /\ GroupIdle /\ MetalIdle

\* a run of one of the two scripts that read the PDK
InitGallery ==
    (GalleryInit \/ StdgridInit) /\ CatIdle /\ StoreIdle /\ ViaIdle /\ LefIdle /\ SizesIdle /\ GroupIdle /\ MetalIdle

NextGallery ==
    \/ GridCheckPdk \/ GridFindFiles \/ GridLoadFile \/ GridLoadDone \/ GridPlaceCells
    \/ GridWriteGds

\* one run of stdcell_grid.py
SpecGallery == InitGallery /\ [][NextGallery]_vars

InitPdk == InitSizes \/ InitStdgrid

NextPdk ==
    \/ MainStart \/ MainEnterLibrary \/ MainProcessLefFile \/ MainWriteReport
    \/ GridCheckPdk \/ GridFindFiles \/ GridLoadFile \/ GridLoadDone \/ GridPlaceCells
    \/ GridWriteGds

SpecPdk == InitPdk /\ [][NextPdk]_vars

InitStripes ==
    StripesInit /\ CatIdle /\ StoreIdle /\ LefIdle /\ SizesIdle /\ GroupIdle /\ StdgridIdle /\ MetalIdle

NextStripes == CreateDenseViaArrayWithStripes

\* one call of create_dense_via_array_with_stripes
SpecStripes == InitStripes /\ [][NextStripes]_vars

InitOpt ==
    OptInit /\ CatIdle /\ StoreIdle /\ LefIdle /\ SizesIdle /\ GroupIdle /\ StdgridIdle /\ MetalIdle

NextOpt == CreateOptimizedViaArray

\* one call of create_optimized_via_array
SpecOpt == InitOpt /\ [][NextOpt]_vars

InitSpacing == (InitVia \/ InitOpt) /\ size # MAIN_SIZE

NextSpacing == CreateDenseViaArray \/ CreateOptimizedViaArray

\* one call of create_dense_via_array or of create_optimized_via_array with
\* arguments small enough to compare every two vias of the component
SpecSpacing == InitSpacing /\ [][NextSpacing]_vars

InitMetal ==
    MetalInit /\ CatIdle /\ StoreIdle /\ ViaIdle /\ LefIdle /\ SizesIdle /\ GroupIdle /\ StdgridIdle

NextMetal == CreateVia \/ CreateMetalGrid

\* calls of create_via and create_metal_grid in one process
SpecMetal == InitMetal /\ [][NextMetal]_vars

=============================================================================
